---- MODULE Spec2Model ----
(***************************************************************************)
(* Model of the EDA panel's statistics engine (core/statistics_engine.py)  *)
(* and of the loading of a dataset (core/data_manager.py, gui/).           *)
(*                                                                         *)
(* A table (pandas DataFrame) is a sequence of columns of equal length; a  *)
(* column is a record [dtype, data] whose data is a sequence of cells.  A  *)
(* cell is a natural number or NA (the missing marker).  Numeric results   *)
(* are exact rationals [num, den]; NaN is 0/0.  A nullable result field    *)
(* is None (<<>>) or Some(x) (<<x>>).  Percentages computed by             *)
(* safe_divide(a, n) * 100 are IEEE-754 doubles: they are kept as the      *)
(* operands [a, n] of that computation and their rounding is computed      *)
(* exactly (F64PctErr, F64PctSumUlps).                                     *)
(***************************************************************************)
EXTENDS Integers, Sequences, FiniteSets, TLC

VARIABLES df, call, result, dm, threads, ui, events

vars == <<df, call, result, dm, threads, ui, events>>

\* the state of the loader and of the window
loadVars == <<dm, threads, ui, events>>

---------------------------------------------------------------------------
(* Bounds of the model *)

\* longest column enumerated exhaustively
MaxLen == 4
\* largest cell value of the exhaustive columns
MaxVal == 2
\* most rows of the exhaustive two-column tables
MaxRows == 2
\* length of the longest generated column (more than 100 outliers)
BigLen == 255

---------------------------------------------------------------------------
(* Values *)

\* the missing marker (NaN / None); present cells are >= 0
NA == -1

None == <<>>

Some(x) == <<x>>

RECURSIVE GCD(_, _)
GCD(a, b) == IF b = 0 THEN a ELSE GCD(b, a % b)

Abs(x) == IF x < 0 THEN -x ELSE x

\* the rational n/d in lowest terms, d > 0
Rat(n, d) ==
    LET g == GCD(Abs(n), d)
    IN  [num |-> n \div g, den |-> d \div g]

\* float('nan')
NaN == [num |-> 0, den |-> 0]

IsNaN(x) == x.den = 0

\* x <= y and x < y; the denominators' common factor is cancelled first
RatLE(x, y) ==
    LET g == GCD(x.den, y.den)
    IN  x.num * (y.den \div g) <= y.num * (x.den \div g)

RatLT(x, y) ==
    LET g == GCD(x.den, y.den)
    IN  x.num * (y.den \div g) < y.num * (x.den \div g)

RatSub(x, y) == Rat(x.num * y.den - y.num * x.den, x.den * y.den)

RatAdd(x, y) == Rat(x.num * y.den + y.num * x.den, x.den * y.den)

RatMul(x, y) == Rat(x.num * y.num, x.den * y.den)

Max(a, b) == IF a >= b THEN a ELSE b

Min(a, b) == IF a <= b THEN a ELSE b

\* the sum s[lo] + ... + s[hi], by halves
RECURSIVE SumRange(_, _, _)
SumRange(s, lo, hi) ==
    IF lo > hi THEN 0
    ELSE IF lo = hi THEN s[lo]
    ELSE LET mid == (lo + hi) \div 2
         IN  SumRange(s, lo, mid) + SumRange(s, mid + 1, hi)

SumSeq(s) == SumRange(s, 1, Len(s))

---------------------------------------------------------------------------
(* Integers of any size, for the moments of a column: [neg, mag] with mag
   the digits to the base BigBase, least significant first, no leading 0 *)

BigBase == 10 ^ 4

RECURSIVE MagOf(_)
MagOf(n) == IF n = 0 THEN <<>> ELSE <<n % BigBase>> \o MagOf(n \div BigBase)

MagDigit(a, i) == IF i <= Len(a) THEN a[i] ELSE 0

RECURSIVE MagTrim(_)
MagTrim(a) ==
    IF a = <<>> \/ a[Len(a)] # 0 THEN a ELSE MagTrim(SubSeq(a, 1, Len(a) - 1))

RECURSIVE MagAddFrom(_, _, _, _)
MagAddFrom(a, b, i, carry) ==
    IF i > Len(a) /\ i > Len(b)
    THEN IF carry = 0 THEN <<>> ELSE <<carry>>
    ELSE LET t == MagDigit(a, i) + MagDigit(b, i) + carry
         IN  <<t % BigBase>> \o MagAddFrom(a, b, i + 1, t \div BigBase)

MagAdd(a, b) == MagAddFrom(a, b, 1, 0)

\* a - b for a >= b
RECURSIVE MagSubFrom(_, _, _, _)
MagSubFrom(a, b, i, borrow) ==
    IF i > Len(a) THEN <<>>
    ELSE LET t == a[i] - MagDigit(b, i) - borrow
         IN  IF t < 0 THEN <<t + BigBase>> \o MagSubFrom(a, b, i + 1, 1)
             ELSE <<t>> \o MagSubFrom(a, b, i + 1, 0)

MagSub(a, b) == MagTrim(MagSubFrom(a, b, 1, 0))

MagLT(a, b) ==
    \/ Len(a) < Len(b)
    \/ /\ Len(a) = Len(b)
       /\ \E i \in 1..Len(a) :
             /\ a[i] < b[i]
             /\ \A j \in (i + 1)..Len(a) : a[j] = b[j]

RECURSIVE MagMulDigitFrom(_, _, _, _)
MagMulDigitFrom(a, d, i, carry) ==
    IF i > Len(a) THEN IF carry = 0 THEN <<>> ELSE <<carry>>
    ELSE LET t == a[i] * d + carry
         IN  <<t % BigBase>> \o MagMulDigitFrom(a, d, i + 1, t \div BigBase)

RECURSIVE MagMulFrom(_, _, _)
MagMulFrom(a, b, j) ==
    IF j > Len(b) THEN <<>>
    ELSE MagAdd(MagMulDigitFrom(a, b[j], 1, 0),
                <<0>> \o MagMulFrom(a, b, j + 1))

MagMul(a, b) == MagTrim(MagMulFrom(a, b, 1))

Big(n) == [neg |-> n < 0, mag |-> MagOf(Abs(n))]

BigNeg(x) == [neg |-> ~x.neg /\ x.mag # <<>>, mag |-> x.mag]

BigAdd(x, y) ==
    IF x.neg = y.neg THEN [neg |-> x.neg, mag |-> MagAdd(x.mag, y.mag)]
    ELSE IF MagLT(x.mag, y.mag) THEN [neg |-> y.neg, mag |-> MagSub(y.mag, x.mag)]
    ELSE IF x.mag = y.mag THEN Big(0)
    ELSE [neg |-> x.neg, mag |-> MagSub(x.mag, y.mag)]

BigSub(x, y) == BigAdd(x, BigNeg(y))

BigMul(x, y) ==
    LET m == MagMul(x.mag, y.mag)
    IN  [neg |-> (x.neg # y.neg) /\ m # <<>>, mag |-> m]

BigLT(x, y) == BigSub(x, y).neg

BigAbs(x) == [neg |-> FALSE, mag |-> x.mag]

RECURSIVE BigPow(_, _)
BigPow(x, k) == IF k = 0 THEN Big(1) ELSE BigMul(x, BigPow(x, k - 1))

---------------------------------------------------------------------------
(* helpers.safe_divide and the double arithmetic of  safe_divide(a, n)*100 *)

\* safe_divide(numerator, denominator) * 100 : the double is kept as the
\* quotient numerator/denominator it is computed from (its value is 100
\* times that, rounded twice).  A zero denominator yields the default 0.0.
SafeDividePct(numerator, denominator) ==
    IF denominator = 0 THEN Rat(0, 1) ELSE Rat(numerator, denominator)

\* 2^e mod m
RECURSIVE PowMod(_, _)
PowMod(e, m) == IF e = 0 THEN 1 % m ELSE (2 * PowMod(e - 1, m)) % m

\* binary exponent of a/n in (0,1): the least j with a * 2^j >= n
RECURSIVE BinExp(_, _, _)
BinExp(a, n, j) == IF a * (2 ^ j) >= n THEN j ELSE BinExp(a, n, j + 1)

\* The double  fl(fl(a/n) * 100)  for 0 < a < n  equals, exactly,
\*      100*a/n - c / (n * 2^s)
\* with the pair [c, s] computed here: the correctly rounded quotient has
\* 53 significant bits (s = 52 + j fractional bits) and remainder r; its
\* product with 100 is rounded again, to nearest-even, dropping t low bits
\* with remainder r2; c = 100*r + n*r2.
F64PctErr(p) ==
    LET a   == p.num
        n   == p.den
        j   == BinExp(a, n, 1)
        s   == 52 + j
        K   == 256
        R   == (a * PowMod(s, K * n)) % (K * n)
        Q   == R \div n
        rem == R % n
        up  == IF 2 * rem > n \/ (2 * rem = n /\ Q % 2 = 1) THEN 1 ELSE 0
        r   == rem - n * up
        M1  == (Q + up) % K
        t   == IF 25 * a * (2 ^ j) < 32 * n THEN 6 ELSE 7
        P   == (100 * M1) % (2 ^ (t + 1))
        low == P % (2 ^ t)
        qb  == P \div (2 ^ t)
        up2 == IF low > 2 ^ (t - 1) \/ (low = 2 ^ (t - 1) /\ qb = 1)
               THEN 1 ELSE 0
        r2  == low - (2 ^ t) * up2
    IN  IF a = 0 \/ a = n THEN [c |-> 0, s |-> 53]
        ELSE [c |-> 100 * r + n * r2, s |-> s]

\* round-half-even of N / D, D > 0
RoundHalfEven(N, D) ==
    LET q   == N \div D
        rem == N - q * D
    IN  IF 2 * rem > D \/ (2 * rem = D /\ q % 2 = 1) THEN q + 1 ELSE q

\* The double sum  x + y  of two such percentages over the same
\* denominator whose exact operands add up to 100, as its distance from
\* 100.0 in units in the last place (2^-46): 0 means the sum is exactly 100.0.
F64PctSumUlps(x, y) ==
    LET ex == F64PctErr(x)
        ey == F64PctErr(y)
        S  == Max(ex.s, ey.s)
        N  == -(ex.c * (2 ^ (S - ex.s)) + ey.c * (2 ^ (S - ey.s)))
        D  == x.den * (2 ^ (S - 46))
    IN  RoundHalfEven(N, D)

---------------------------------------------------------------------------
(* Columns: pandas Series *)

\* np.issubdtype(series.dtype, np.number)
IsNumeric(series) == series.dtype = "numeric"

\* series.isna() as the set of missing positions (1-based)
IsNaPositions(series) == {i \in 1..Len(series.data) : series.data[i] = NA}

\* series.isna().sum()
IsNaSum(series) == Cardinality(IsNaPositions(series))

\* series.dropna(): the present cells in column order, each with the index
\* label (0-based row number) it keeps
DropNa(series) ==
    SelectSeq([i \in 1..Len(series.data) |-> [idx |-> i - 1, val |-> series.data[i]]],
              LAMBDA e : e.val # NA)

Values(clean) == [i \in 1..Len(clean) |-> clean[i].val]

SortedValues(clean) == SortSeq(Values(clean), LAMBDA a, b : a < b)

ValueSet(clean) == {clean[i].val : i \in 1..Len(clean)}

Freq(clean, v) == Cardinality({i \in 1..Len(clean) : clean[i].val = v})

\* clean_series.mode(): the most frequent values
ModeSet(clean) ==
    {v \in ValueSet(clean) : \A w \in ValueSet(clean) : Freq(clean, w) <= Freq(clean, v)}

SetMin(S) == CHOOSE v \in S : \A w \in S : v <= w

SetMax(S) == CHOOSE v \in S : \A w \in S : v >= w

\* interpolation 'lower': the data point at the floor of the virtual index
Percentile_Lower(sorted, p) ==
    Rat(sorted[(((Len(sorted) - 1) * p) \div 100) + 1], 1)

\* the percentile 100 - p taken for p
Percentile_Complement(sorted, p) ==
    LET n   == Len(sorted)
        pos == (n - 1) * (100 - p)
        lo  == pos \div 100
        rem == pos % 100
    IN  IF rem = 0 THEN Rat(sorted[lo + 1], 1)
        ELSE Rat(100 * sorted[lo + 1] + rem * (sorted[lo + 2] - sorted[lo + 1]), 100)

\* np.percentile / Series.quantile with linear interpolation: the value at
\* virtual index (n-1)*p/100 of the ordered data, n >= 1
Percentile(sorted, p) ==
    LET n   == Len(sorted)
        pos == (n - 1) * p
        lo  == pos \div 100
        rem == pos % 100
    IN  IF rem = 0 THEN Rat(sorted[lo + 1], 1)
        ELSE Rat(100 * sorted[lo + 1] + rem * (sorted[lo + 2] - sorted[lo + 1]), 100)

\* n * sum(x^2) - sum(x)^2  =  n * (n-1) * sample variance
SumSqDev(vals) ==
    LET n == Len(vals)
        S == SumSeq(vals)
        Q == SumSeq([i \in 1..n |-> vals[i] * vals[i]])
    IN  n * Q - S * S

\* Series.mean()
Mean(vals) == Rat(SumSeq(vals), Len(vals))

\* Series.var(), ddof = 1: NaN for a single value
Var(vals) ==
    LET n == Len(vals)
    IN  IF n < 2 THEN NaN ELSE Rat(SumSqDev(vals), n * (n - 1))

\* the population deviation (ddof = 0) in place of the sample deviation
Std_Population(vals) ==
    [sqrt_of |-> Rat(SumSqDev(vals), Len(vals) * Len(vals))]

\* Series.std(): the non-negative square root of Var, kept as its square
Std(vals) == [sqrt_of |-> Var(vals)]

---------------------------------------------------------------------------
(* Basic statistics *)

\* zeros instead of nulls for the undefined statistics
_empty_basic_stats_Zeroed ==
    [count |-> 0, count_total |-> 0, missing |-> 0, missing_pct |-> Rat(0, 1),
     mean |-> Some(Rat(0, 1)), median |-> Some(Rat(0, 1)), mode |-> None,
     mode_count |-> 0, std |-> Some([sqrt_of |-> Rat(0, 1)]),
     variance |-> Some(Rat(0, 1)), min |-> None, max |-> None,
     range |-> None, unique |-> 0]

_empty_basic_stats ==
    [count |-> 0, count_total |-> 0, missing |-> 0, missing_pct |-> Rat(0, 1),
     mean |-> None, median |-> None, mode |-> None, mode_count |-> 0,
     std |-> None, variance |-> None, min |-> None, max |-> None,
     range |-> None, unique |-> 0]

\* the subtraction of the present count forgotten
MissingOf_Total(series, clean_series) == Len(series.data)

\* len(series) - len(clean_series)
MissingOf(series, clean_series) == Len(series.data) - Len(clean_series)

\* the difference of the extremes taken whatever the dtype
RangeOf_AnyDtype(numeric, lo, hi) == Some(hi - lo)

\* range stays None unless the dtype is numeric
RangeOf(numeric, lo, hi) == IF numeric THEN Some(hi - lo) ELSE None

calculate_basic_stats(series) ==
    LET clean_series == DropNa(series)
        vals         == Values(clean_series)
        numeric      == IsNumeric(series)
        lo           == SetMin(ValueSet(clean_series))
        hi           == SetMax(ValueSet(clean_series))
    IN  IF Len(clean_series) = 0 THEN _empty_basic_stats
        ELSE [count       |-> Len(clean_series),
              count_total |-> Len(series.data),
              missing     |-> MissingOf(series, clean_series),
              missing_pct |-> SafeDividePct(MissingOf(series, clean_series),
                                            Len(series.data)),
              mean        |-> IF numeric THEN Some(Mean(vals)) ELSE None,
              median      |-> IF numeric THEN Some(Percentile(SortedValues(clean_series), 50))
                              ELSE None,
              mode        |-> Some(SetMin(ModeSet(clean_series))),
              mode_count  |-> Cardinality(ModeSet(clean_series)),
              std         |-> IF numeric THEN Some(Std(vals)) ELSE None,
              variance    |-> IF numeric THEN Some(Var(vals)) ELSE None,
              min         |-> Some(lo),
              max         |-> Some(hi),
              range       |-> RangeOf(numeric, lo, hi),
              unique      |-> Cardinality(ValueSet(clean_series))]

---------------------------------------------------------------------------
(* Distribution statistics *)

PercentileKeys == {10, 25, 50, 75, 90, 95, 99}

\* the sum over the present values x of (n*x - S)^k, for their number n and
\* their sum S: n^k times the k-th central sum of the values
RECURSIVE CentralSumOver(_, _, _)
CentralSumOver(V, clean, k) ==
    IF V = {} THEN Big(0)
    ELSE LET v == SetMin(V)
             n == Len(clean)
             S == SumSeq(Values(clean))
         IN  BigAdd(BigMul(Big(Freq(clean, v)), BigPow(Big(n * v - S), k)),
                    CentralSumOver(V \ {v}, clean, k))

CentralSum(clean, k) == CentralSumOver(ValueSet(clean), clean, k)

\* scipy.stats.skew(values): m3 / m2^1.5 for the central moments mk, which
\* is sqrt(n) * d3 / d2^1.5 for dk = CentralSum(clean, k); kept as [n, d3, d2].
\* NaN for constant values (m2 = 0)
skew(clean) ==
    LET d2 == CentralSum(clean, 2)
    IN  IF d2 = Big(0) THEN NaN
        ELSE [n |-> Len(clean), d3 |-> CentralSum(clean, 3), d2 |-> d2]

\* scipy.stats.kurtosis(values): m4 / m2^2 - 3 = (n * d4 - 3 * d2^2) / d2^2,
\* kept as the wide [top, bottom] of that quotient (not reduced); NaN for
\* constant values
kurtosis(clean) ==
    LET d2 == CentralSum(clean, 2)
        d4 == CentralSum(clean, 4)
    IN  IF d2 = Big(0) THEN NaN
        ELSE [top    |-> BigSub(BigMul(Big(Len(clean)), d4),
                                BigMul(Big(3), BigMul(d2, d2))),
              bottom |-> BigMul(d2, d2)]

\* abs(skewness) < 0.5, i.e. 4 * n * d3^2 < d2^3; then skewness > 0.  Every
\* comparison with NaN is False
SkewInterpretation(skewness) ==
    IF skewness # NaN /\ BigLT(BigMul(Big(4 * skewness.n),
                                      BigMul(skewness.d3, skewness.d3)),
                               BigPow(skewness.d2, 3))
    THEN "Simetrica"
    ELSE IF skewness # NaN /\ BigLT(Big(0), skewness.d3)
    THEN "Asimetria positiva (cola derecha)"
    ELSE "Asimetria negativa (cola izquierda)"

\* abs(kurt) < 0.5, i.e. 2 * |top| < bottom; then kurt > 0
KurtInterpretation(kurt) ==
    IF kurt # NaN /\ BigLT(BigMul(Big(2), BigAbs(kurt.top)), kurt.bottom)
    THEN "Mesocurtica (normal)"
    ELSE IF kurt # NaN /\ BigLT(Big(0), kurt.top)
    THEN "Leptocurtica (colas pesadas)"
    ELSE "Platicurtica (colas ligeras)"

\* the limit of the sample handed to the normality test
ShapiroSampleCap == 5000

\* a limit of three values
SampleSize_Three(clean) == Min(Len(clean), 3)

\* sample_size = min(len(values), 5000)
SampleSize(clean) == Min(Len(clean), ShapiroSampleCap)

\* the values as a bag: the number of times each occurs.  The normality
\* test orders its sample, so a sample is the bag of the values in it
BagOfValues(clean) == [v \in ValueSet(clean) |-> Freq(clean, v)]

\* np.random.choice(values, size, replace=False): the bags of `size` of the
\* values with the distinct values V
RECURSIVE ChoiceOver(_, _, _)
ChoiceOver(V, clean, size) ==
    IF V = {} THEN IF size = 0 THEN {<<>>} ELSE {}
    ELSE LET v    == SetMin(V)
             rest == Cardinality({i \in 1..Len(clean) : clean[i].val \in V \ {v}})
         IN  UNION {{[w \in V |-> IF w = v THEN k ELSE b[w]] :
                        b \in ChoiceOver(V \ {v}, clean, size - k)} :
                    k \in Max(0, size - rest)..Min(Freq(clean, v), size)}

\* the samples the normality test can be handed:
\* np.random.choice(...) if len(values) > sample_size else values
ShapiroSample(clean) ==
    IF Len(clean) > SampleSize(clean)
    THEN ChoiceOver(ValueSet(clean), clean, SampleSize(clean))
    ELSE {BagOfValues(clean)}

\* what scipy.stats.shapiro(sample) does: it raises, or returns the
\* statistic W, 0 < W <= 1, and the p-value, 0 <= p <= 1, which falls with
\* W.  The doubles 0.05 and 0.1 are written 1/20 and 1/10
ShapiroReturns ==
    {[raised |-> FALSE, stat |-> Rat(1, 1),  p |-> Rat(1, 10)],
     [raised |-> FALSE, stat |-> Rat(9, 10), p |-> Rat(1, 20)],
     [raised |-> FALSE, stat |-> Rat(1, 2),  p |-> Rat(0, 1)]}

ShapiroRaised == [raised |-> TRUE]

ShapiroResults == {ShapiroRaised} \cup ShapiroReturns

\* the truth value of an optional double: None and 0.0 are false
Truthy(x) == x # None /\ x[1].num # 0

\* is_normal taken for shapiro_p >= 0.05
IsNormal_Inclusive(shapiro_p) == RatLE(Rat(1, 20), shapiro_p)

\* shapiro_p > 0.05
IsNormal(shapiro_p) == RatLT(Rat(1, 20), shapiro_p)

\* an interquartile range of 0 instead of null
_empty_distribution_stats_ZeroIqr ==
    [percentiles |-> [p \in PercentileKeys |-> None],
     skewness |-> None, skew_interpretation |-> None,
     kurtosis |-> None, kurt_interpretation |-> None,
     shapiro_stat |-> None, shapiro_p_value |-> None,
     is_normal |-> None, iqr |-> Some(Rat(0, 1))]

_empty_distribution_stats ==
    [percentiles |-> [p \in PercentileKeys |-> None],
     skewness |-> None, skew_interpretation |-> None,
     kurtosis |-> None, kurt_interpretation |-> None,
     shapiro_stat |-> None, shapiro_p_value |-> None,
     is_normal |-> None, iqr |-> None]

\* shapiro_result is what shapiro(sample) does if the call reaches it
calculate_distribution_stats(series, shapiro_result) ==
    LET clean_series == DropNa(series)
        values       == SortedValues(clean_series)
        percentiles  == [p \in PercentileKeys |-> Some(Percentile(values, p))]
        skewness     == skew(clean_series)
        kurt         == kurtosis(clean_series)
        returned     == SampleSize(clean_series) >= 3 /\ ~shapiro_result.raised
        shapiro_stat == IF returned THEN Some(shapiro_result.stat) ELSE None
        shapiro_p    == IF returned THEN Some(shapiro_result.p) ELSE None
        is_normal    == IF returned THEN Some(IsNormal(shapiro_result.p)) ELSE None
    IN  IF Len(clean_series) < 3 \/ ~IsNumeric(series)
        THEN _empty_distribution_stats
        ELSE [percentiles         |-> percentiles,
              skewness            |-> Some(skewness),
              skew_interpretation |-> Some(SkewInterpretation(skewness)),
              kurtosis            |-> Some(kurt),
              kurt_interpretation |-> Some(KurtInterpretation(kurt)),
              shapiro_stat        |-> IF Truthy(shapiro_stat) THEN shapiro_stat ELSE None,
              shapiro_p_value     |-> IF Truthy(shapiro_p) THEN shapiro_p ELSE None,
              is_normal           |-> is_normal,
              iqr |-> Some(RatSub(percentiles[75][1], percentiles[25][1]))]

---------------------------------------------------------------------------
(* Missing-data analysis *)

\* (missing_mask != missing_mask.shift()).cumsum(): the number of the run of
\* equal mask values position i lies in
ConsecutiveGroup(series, i) ==
    Cardinality({j \in 1..i :
        j = 1 \/ (series.data[j] = NA) # (series.data[j - 1] = NA)})

\* missing_mask.groupby(consecutive_groups).sum().max(): the largest number
\* of missing positions in one run
MaxConsecutive(series) ==
    LET n      == Len(series.data)
        groups == {ConsecutiveGroup(series, i) : i \in 1..n}
        size(g) == Cardinality({i \in IsNaPositions(series) :
                                    ConsecutiveGroup(series, i) = g})
    IN  IF groups = {} THEN 0 ELSE SetMax({size(g) : g \in groups})

\* >= instead of >
ExceedsTenth_Inclusive(max_consecutive, total) == 10 * max_consecutive >= total

\* max_consecutive > total * 0.1 : the double total * 0.1 is never below
\* total / 10 and rounds to it whenever total / 10 is an integer, so for the
\* integer max_consecutive the comparison is 10 * max_consecutive > total
ExceedsTenth(max_consecutive, total) == 10 * max_consecutive > total

PatternType(series) ==
    LET total   == Len(series.data)
        missing == IsNaSum(series)
    IN  IF missing = 0 THEN "none"
        ELSE IF missing = total THEN "complete"
        ELSE IF ExceedsTenth(MaxConsecutive(series), total) THEN "systematic"
        ELSE "random"

\* a percentage of exactly 5, 20 or 50 left in the lower bracket
Recommendations_Inclusive(missing_pct) ==
    IF missing_pct.num = 0 THEN <<"No se requiere accion">>
    ELSE IF RatLE(missing_pct, Rat(5, 100)) THEN
        <<"Eliminar filas con valores faltantes",
          "Imputar con media/mediana (numericos)",
          "Imputar con moda (categoricos)">>
    ELSE IF RatLE(missing_pct, Rat(20, 100)) THEN
        <<"Imputacion multiple recomendada",
          "Imputar con KNN o modelo predictivo",
          "Evitar eliminar filas">>
    ELSE IF RatLE(missing_pct, Rat(50, 100)) THEN
        <<"Alto porcentaje de faltantes",
          "Considerar eliminar la columna",
          "Crear variable indicadora de faltante">>
    ELSE
        <<"Mayoria de valores faltantes",
          "Eliminar columna recomendado",
          "No usar para analisis criticos">>

\* the recommendation lists, by the bracket of missing_pct (the double
\* fl(fl(m/n)*100) compares with 0, 5, 20 and 50 as 100*m/n does)
Recommendations(missing_pct) ==
    IF missing_pct.num = 0 THEN <<"No se requiere accion">>
    ELSE IF RatLT(missing_pct, Rat(5, 100)) THEN
        <<"Eliminar filas con valores faltantes",
          "Imputar con media/mediana (numericos)",
          "Imputar con moda (categoricos)">>
    ELSE IF RatLT(missing_pct, Rat(20, 100)) THEN
        <<"Imputacion multiple recomendada",
          "Imputar con KNN o modelo predictivo",
          "Evitar eliminar filas">>
    ELSE IF RatLT(missing_pct, Rat(50, 100)) THEN
        <<"Alto porcentaje de faltantes",
          "Considerar eliminar la columna",
          "Crear variable indicadora de faltante">>
    ELSE
        <<"Mayoria de valores faltantes",
          "Eliminar columna recomendado",
          "No usar para analisis criticos">>

\* the missing count divided instead of the complete count
CompletePct_OfMissing(missing, total) == SafeDividePct(missing, total)

\* safe_divide(total - missing, total) * 100
CompletePct(missing, total) == SafeDividePct(total - missing, total)

analyze_column_missing(series) ==
    LET total   == Len(series.data)
        missing == IsNaSum(series)
    IN  [total           |-> total,
         missing         |-> missing,
         missing_pct     |-> SafeDividePct(missing, total),
         complete        |-> total - missing,
         complete_pct    |-> CompletePct(missing, total),
         pattern_type    |-> PatternType(series),
         recommendations |-> Recommendations(SafeDividePct(missing, total))]

\* one entry of column_missing
ColumnMissingEntry(table, col) ==
    LET missing_count == IsNaSum(table[col])
        total_count   == Len(table[1].data)
    IN  [column        |-> col,
         missing_count |-> missing_count,
         missing_pct   |-> SafeDividePct(missing_count, total_count),
         complete_pct  |-> CompletePct(missing_count, total_count)]

\* of the entries with equal keys the last one taken first
RECURSIVE SortByMissingPct_LastOfTies(_)
SortByMissingPct_LastOfTies(entries) ==
    IF entries = <<>> THEN <<>>
    ELSE LET best == CHOOSE i \in 1..Len(entries) :
                        /\ \A j \in 1..Len(entries) :
                              RatLE(entries[j].missing_pct, entries[i].missing_pct)
                        /\ \A j \in (i + 1)..Len(entries) :
                              RatLT(entries[j].missing_pct, entries[i].missing_pct)
         IN  <<entries[best]>> \o
             SortByMissingPct_LastOfTies(SubSeq(entries, 1, best - 1) \o
                                         SubSeq(entries, best + 1, Len(entries)))

\* list.sort(key = missing_pct, reverse = True): stable, entries with equal
\* keys keep their order
RECURSIVE SortByMissingPct(_)
SortByMissingPct(entries) ==
    IF entries = <<>> THEN <<>>
    ELSE LET best == CHOOSE i \in 1..Len(entries) :
                        /\ \A j \in 1..Len(entries) :
                              RatLE(entries[j].missing_pct, entries[i].missing_pct)
                        /\ \A j \in 1..(i - 1) :
                              RatLT(entries[j].missing_pct, entries[i].missing_pct)
         IN  <<entries[best]>> \o
             SortByMissingPct(SubSeq(entries, 1, best - 1) \o
                              SubSeq(entries, best + 1, Len(entries)))

\* a row counted only when every cell of it is missing
AnyInRow_All(table, r) == \A c \in 1..Len(table) : table[c].data[r] = NA

\* missing_matrix.any(axis=1), for the row r
AnyInRow(table, r) == \E c \in 1..Len(table) : table[c].data[r] = NA

analyze_missing_data(table) ==
    LET rows              == Len(table[1].data)
        total_cells       == rows * Len(table)
        total_missing     == SumSeq([c \in 1..Len(table) |-> IsNaSum(table[c])])
        column_missing    == [c \in 1..Len(table) |-> ColumnMissingEntry(table, c)]
        rows_with_missing == Cardinality({r \in 1..rows : AnyInRow(table, r)})
        complete_rows     == rows - rows_with_missing
    IN  [total_cells          |-> total_cells,
         total_missing        |-> total_missing,
         total_missing_pct    |-> SafeDividePct(total_missing, total_cells),
         columns_with_missing |-> Cardinality({c \in 1..Len(table) :
                                      column_missing[c].missing_count > 0}),
         total_columns        |-> Len(table),
         rows_with_missing    |-> rows_with_missing,
         complete_rows        |-> complete_rows,
         complete_rows_pct    |-> SafeDividePct(complete_rows, rows),
         column_details       |-> SortByMissingPct(column_missing)]

---------------------------------------------------------------------------
(* Outlier detection *)

\* the multiplier k and the threshold are given in halves: k = k2 / 2
DefaultK2 == 3

DefaultThreshold2 == 6

\* outlier_indices[:100]
OutlierListCap == 100

\* the cap left out
Truncate_None(list) == list

Truncate(list) == SubSeq(list, 1, Min(Len(list), OutlierListCap))

Indices(clean) == [i \in 1..Len(clean) |-> clean[i].idx]

_empty_outlier_result ==
    [method |-> None, outlier_count |-> 0, outlier_pct |-> Rat(0, 1),
     outlier_indices |-> <<>>, outlier_values |-> <<>>,
     lower_bound |-> None, upper_bound |-> None]

\* <= and >= instead of < and >
IqrOutlierMask_Inclusive(v, lower_bound, upper_bound) ==
    RatLE(Rat(v, 1), lower_bound) \/ RatLE(upper_bound, Rat(v, 1))

\* (clean_series < lower_bound) | (clean_series > upper_bound)
IqrOutlierMask(v, lower_bound, upper_bound) ==
    RatLT(Rat(v, 1), lower_bound) \/ RatLT(upper_bound, Rat(v, 1))

\* the sign of k * iqr flipped
IqrLowerBound_Plus(q1, iqr, k2) == RatAdd(q1, RatMul(Rat(k2, 2), iqr))

\* q1 - k * iqr
IqrLowerBound(q1, iqr, k2) == RatSub(q1, RatMul(Rat(k2, 2), iqr))

\* q3 + k * iqr
IqrUpperBound(q3, iqr, k2) == RatAdd(q3, RatMul(Rat(k2, 2), iqr))

\* min and max of the cells outside the mask, None when there is none
NormalMin(normal) == IF normal = <<>> THEN None ELSE Some(SetMin(ValueSet(normal)))

NormalMax(normal) == IF normal = <<>> THEN None ELSE Some(SetMax(ValueSet(normal)))

detect_outliers_iqr(series, k2) ==
    LET clean_series == DropNa(series)
        sorted       == SortedValues(clean_series)
        q1           == Percentile(sorted, 25)
        q3           == Percentile(sorted, 75)
        iqr          == RatSub(q3, q1)
        lower_bound  == IqrLowerBound(q1, iqr, k2)
        upper_bound  == IqrUpperBound(q3, iqr, k2)
        mask(e)      == IqrOutlierMask(e.val, lower_bound, upper_bound)
        outliers     == SelectSeq(clean_series, mask)
        normal       == SelectSeq(clean_series, LAMBDA e : ~mask(e))
        lower_outliers == SelectSeq(clean_series,
                              LAMBDA e : RatLT(Rat(e.val, 1), lower_bound))
        upper_outliers == SelectSeq(clean_series,
                              LAMBDA e : RatLT(upper_bound, Rat(e.val, 1)))
    IN  IF Len(clean_series) = 0 \/ ~IsNumeric(series) THEN _empty_outlier_result
        ELSE [method              |-> Some("IQR"),
              q1                  |-> q1,
              q3                  |-> q3,
              iqr                 |-> iqr,
              lower_bound         |-> Some(lower_bound),
              upper_bound         |-> Some(upper_bound),
              outlier_count       |-> Len(outliers),
              outlier_pct         |-> SafeDividePct(Len(outliers), Len(clean_series)),
              lower_outlier_count |-> Len(lower_outliers),
              upper_outlier_count |-> Len(upper_outliers),
              outlier_indices     |-> Truncate(Indices(outliers)),
              outlier_values      |-> Truncate(Values(outliers)),
              normal_min          |-> NormalMin(normal),
              normal_max          |-> NormalMax(normal)]

\* the zero-deviation guard left out
StdIsZero_Never(std) == FALSE

\* std == 0
StdIsZero(std) == ~IsNaN(std.sqrt_of) /\ std.sqrt_of.num = 0

\* np.abs((v - mean) / std) > threshold for the cell v: with std > 0 and
\* threshold = t2/2 >= 0 this is  (v - mean)^2 > (t2/2)^2 * std^2.
\* With a single value std is NaN, the z-score is NaN and the test is False.
ZscoreOutlierMask(v, mean, std, t2) ==
    /\ ~IsNaN(std.sqrt_of)
    /\ RatLT(RatMul(Rat(t2 * t2, 4), std.sqrt_of),
             RatMul(RatSub(Rat(v, 1), mean), RatSub(Rat(v, 1), mean)))

\* (v - mean) / std
Zscore(v, mean, std) == [dev |-> RatSub(Rat(v, 1), mean), std |-> std]

\* mean + coef * std
MeanPlusStd(mean, coef, std) == [mean |-> mean, coef |-> coef, std |-> std]

detect_outliers_zscore(series, threshold2) ==
    LET clean_series == DropNa(series)
        vals         == Values(clean_series)
        mean         == Mean(vals)
        std          == Std(vals)
        mask(e)      == ZscoreOutlierMask(e.val, mean, std, threshold2)
        outliers     == SelectSeq(clean_series, mask)
        normal       == SelectSeq(clean_series, LAMBDA e : ~mask(e))
    IN  IF Len(clean_series) = 0 \/ ~IsNumeric(series) THEN _empty_outlier_result
        ELSE IF StdIsZero(std) THEN _empty_outlier_result
        ELSE [method          |-> Some("Z-Score"),
              mean            |-> mean,
              std             |-> std,
              threshold       |-> Rat(threshold2, 2),
              lower_bound     |-> Some(MeanPlusStd(mean, Rat(-threshold2, 2), std)),
              upper_bound     |-> Some(MeanPlusStd(mean, Rat(threshold2, 2), std)),
              outlier_count   |-> Len(outliers),
              outlier_pct     |-> SafeDividePct(Len(outliers), Len(clean_series)),
              outlier_indices |-> Truncate(Indices(outliers)),
              outlier_values  |-> Truncate(Values(outliers)),
              outlier_zscores |-> Truncate([i \in 1..Len(outliers) |->
                                     Zscore(outliers[i].val, mean, std)]),
              normal_min      |-> NormalMin(normal),
              normal_max      |-> NormalMax(normal)]

NoOutliersList == <<"No se detectaron outliers">>

ModerateOutliersList ==
    <<"Outliers moderados - revisar individualmente",
      "Considerar winsorizacion",
      "Usar estadisticos robustos (mediana)">>

HighOutliersList ==
    <<"Alto numero de outliers",
      "Verificar errores de entrada",
      "Considerar transformacion logaritmica",
      "Aplicar tecnicas de truncamiento">>

\* the list chosen by the IQR percentage alone
OutlierRecommendations_IqrAlone(iqr_pct, zscore_pct) ==
    IF iqr_pct.num = 0 THEN NoOutliersList
    ELSE IF RatLT(iqr_pct, Rat(5, 100)) THEN ModerateOutliersList
    ELSE HighOutliersList

\* if iqr_pct == 0 and zscore_pct == 0 / elif iqr_pct < 5 / else (the
\* double fl(fl(a/n)*100) compares with 0 and 5 as 100*a/n does)
OutlierRecommendations(iqr_pct, zscore_pct) ==
    IF iqr_pct.num = 0 /\ zscore_pct.num = 0 THEN NoOutliersList
    ELSE IF RatLT(iqr_pct, Rat(5, 100)) THEN ModerateOutliersList
    ELSE HighOutliersList

get_outlier_summary(series) ==
    LET iqr_result    == detect_outliers_iqr(series, DefaultK2)
        zscore_result == detect_outliers_zscore(series, DefaultThreshold2)
    IN  [iqr             |-> iqr_result,
         zscore          |-> zscore_result,
         recommendations |-> OutlierRecommendations(iqr_result.outlier_pct,
                                                    zscore_result.outlier_pct)]

---------------------------------------------------------------------------
(* Quality summary.  The doubles 100 - total_missing_pct and
   total_missing_pct compare with 95, 80, 60 and 5 as the exact values do
   (the two differ by less than 10^-13 and an exact value other than the
   threshold is at least 5 / total_cells away from it), so completeness is
   kept, like the percentages, as the exact quotient it is 100 times of. *)

\* 100 - missing_analysis['total_missing_pct']
Completeness(total_missing_pct) == RatSub(Rat(1, 1), total_missing_pct)

\* > instead of >=
create_quality_label_Strict(completeness) ==
    IF RatLT(Rat(95, 100), completeness) THEN <<"Excelente", "#2ecc71">>
    ELSE IF RatLT(Rat(80, 100), completeness) THEN <<"Bueno", "#f1c40f">>
    ELSE IF RatLT(Rat(60, 100), completeness) THEN <<"Regular", "#e67e22">>
    ELSE <<"Critico", "#e74c3c">>

\* helpers.create_quality_label
create_quality_label(completeness) ==
    IF RatLE(Rat(95, 100), completeness) THEN <<"Excelente", "#2ecc71">>
    ELSE IF RatLE(Rat(80, 100), completeness) THEN <<"Bueno", "#f1c40f">>
    ELSE IF RatLE(Rat(60, 100), completeness) THEN <<"Regular", "#e67e22">>
    ELSE <<"Critico", "#e74c3c">>

\* df.select_dtypes(include=[np.number]).columns
NumericCols(table) ==
    SelectSeq([c \in 1..Len(table) |-> c], LAMBDA c : IsNumeric(table[c]))

\* every column counted, with or without outliers
RECURSIVE OutlierTally_EveryColumn(_, _)
OutlierTally_EveryColumn(table, cols) ==
    IF cols = <<>> THEN [total_outliers |-> 0, outlier_columns |-> 0]
    ELSE LET iqr_result == detect_outliers_iqr(table[Head(cols)], DefaultK2)
             rest       == OutlierTally_EveryColumn(table, Tail(cols))
         IN  [total_outliers  |-> rest.total_outliers + iqr_result.outlier_count,
              outlier_columns |-> rest.outlier_columns + 1]

\* the loop over numeric_cols
RECURSIVE OutlierTally(_, _)
OutlierTally(table, cols) ==
    IF cols = <<>> THEN [total_outliers |-> 0, outlier_columns |-> 0]
    ELSE LET iqr_result == detect_outliers_iqr(table[Head(cols)], DefaultK2)
             rest       == OutlierTally(table, Tail(cols))
         IN  IF iqr_result.outlier_count > 0
             THEN [total_outliers  |-> rest.total_outliers + iqr_result.outlier_count,
                   outlier_columns |-> rest.outlier_columns + 1]
             ELSE rest

\* >= instead of >
ExceedsFive_Inclusive(total_missing_pct) == RatLE(Rat(5, 100), total_missing_pct)

\* missing_analysis['total_missing_pct'] > 5
ExceedsFive(total_missing_pct) == RatLT(Rat(5, 100), total_missing_pct)

\* f"{pct:.1f}": the tenths of the decimal nearest to the double
\* fl(fl(a/n) * 100) = 100*a/n - c/(n * 2^s).  When 1000*a/n lies halfway
\* between two integers the side the double lies on decides, and the even
\* neighbour when the double is that halfway value itself
FormatTenths(pct) ==
    LET N   == 1000 * pct.num
        q   == N \div pct.den
        rem == N - q * pct.den
        c   == F64PctErr(pct).c
    IN  IF 2 * rem > pct.den THEN q + 1
        ELSE IF 2 * rem < pct.den THEN q
        ELSE IF c > 0 THEN q
        ELSE IF c < 0 THEN q + 1
        ELSE IF q % 2 = 1 THEN q + 1 ELSE q

\* issues: f"Datos faltantes: {pct:.1f}%" (value in tenths of a percent),
\* f"Columnas con outliers: {outlier_columns}"
Issues(total_missing_pct, outlier_columns) ==
    (IF ExceedsFive(total_missing_pct)
     THEN <<[text |-> "Datos faltantes", value |-> FormatTenths(total_missing_pct)]>>
     ELSE <<>>)
    \o
    (IF outlier_columns > 0
     THEN <<[text |-> "Columnas con outliers", value |-> outlier_columns]>>
     ELSE <<>>)

get_quality_summary(table) ==
    LET missing_analysis == analyze_missing_data(table)
        completeness     == Completeness(missing_analysis.total_missing_pct)
        tally            == OutlierTally(table, NumericCols(table))
        label            == create_quality_label(completeness)
        issues           == Issues(missing_analysis.total_missing_pct,
                                   tally.outlier_columns)
    IN  [completeness     |-> completeness,
         quality_label    |-> label[1],
         quality_color    |-> label[2],
         missing_analysis |-> missing_analysis,
         total_outliers   |-> tally.total_outliers,
         outlier_columns  |-> tally.outlier_columns,
         issues           |-> issues,
         has_issues       |-> Len(issues) > 0]

---------------------------------------------------------------------------
(* Inputs: the tables the engine is called on *)

Dtypes == {"numeric", "categorical"}

Cells == {NA} \cup (0..MaxVal)

SeqsOf(S, n) == [1..n -> S]

\* every column of at most MaxLen cells
SmallColumns ==
    {[dtype |-> d, data |-> s] :
        d \in Dtypes, s \in UNION {SeqsOf(Cells, n) : n \in 0..MaxLen}}

\* two columns of at most MaxRows rows, the first numeric
TwoColumnTables ==
    UNION {{<<[dtype |-> "numeric", data |-> a], [dtype |-> d, data |-> b]>> :
                d \in Dtypes, a \in SeqsOf({NA, 0, MaxVal}, n),
                b \in SeqsOf({NA, 0, MaxVal}, n)} : n \in 1..MaxRows}

NumericColumn(data) == [dtype |-> "numeric", data |-> data]

\* ten values all equal to 7
TenSevens == NumericColumn([i \in 1..10 |-> 7])

\* one obvious outlier
OneOutlier == NumericColumn(<<1, 2, 3, 4, 5, 100>>)

\* 100 cells, the cells first..(first + run - 1) missing
RunColumn(first, run) ==
    NumericColumn([i \in 1..100 |->
        IF i >= first /\ i < first + run THEN NA ELSE i % 3])

\* 100 cells, ten isolated missing cells spread evenly
IsolatedColumn == NumericColumn([i \in 1..100 |-> IF i % 10 = 5 THEN NA ELSE i % 3])

\* len cells: of every five, one 0 and one 2 among 1s; every fiftieth missing
BigColumn(len) ==
    NumericColumn([i \in 1..len |->
        IF i % 50 = 8 THEN NA
        ELSE IF i % 5 = 1 THEN 0
        ELSE IF i % 5 = 2 THEN 2
        ELSE 1])

\* twenty 0s, twenty 2s and one last value: 5 lies on the upper IQR fence
\* and more than three deviations from the mean, 6 beyond the fence
TwoClusters(last) ==
    NumericColumn([i \in 1..41 |-> IF i <= 20 THEN 0 ELSE IF i <= 40 THEN 2 ELSE last])

\* twenty values, one of them beyond the IQR fences: 5 per cent
OneInTwenty ==
    NumericColumn([i \in 1..20 |-> IF i <= 10 THEN 0 ELSE IF i <= 19 THEN 2 ELSE 9])

ScenarioColumns ==
    {TenSevens, OneOutlier, IsolatedColumn, TwoClusters(5), TwoClusters(6), OneInTwenty}
    \cup {RunColumn(41, run) : run \in {9, 10, 11, 15}}
    \cup {BigColumn(len) : len \in {BigLen - 10, BigLen - 5, BigLen}}

\* three numeric columns of ThreeRows rows, cells missing or 0
ThreeRows == 2

ThreeColumnTables ==
    {<<NumericColumn(a), NumericColumn(b), NumericColumn(c)>> :
        a \in SeqsOf({NA, 0}, ThreeRows), b \in SeqsOf({NA, 0}, ThreeRows),
        c \in SeqsOf({NA, 0}, ThreeRows)}

\* ten rows; column A complete, column B with its first five cells missing,
\* column C fully missing
TenRowsABC ==
    <<NumericColumn([i \in 1..10 |-> i % 3]),
      NumericColumn([i \in 1..10 |-> IF i <= 5 THEN NA ELSE 1]),
      NumericColumn([i \in 1..10 |-> NA])>>

\* six rows: a numeric column with one outlier, a fully missing numeric
\* column, a constant numeric column, a text column, a numeric column with
\* two outliers
MixedTable ==
    <<NumericColumn(<<1, 2, 3, 4, 5, 100>>),
      NumericColumn(<<NA, NA, NA, NA, NA, NA>>),
      NumericColumn(<<7, 7, 7, 7, 7, 7>>),
      [dtype |-> "categorical", data |-> <<0, 1, NA, 1, 0, 2>>],
      NumericColumn(<<50, 10, 10, 10, 10, 0>>)>>

\* 100 cells of which 4, 5, 6, 20, 21, 40 and 41 are missing: completeness
\* at and next to 95, 80 and 60
ThresholdColumns == {RunColumn(41, run) : run \in {4, 5, 6, 20, 21, 40, 41}}

ScenarioTables == {TenRowsABC, MixedTable} \cup {<<c>> : c \in ThresholdColumns}

\* as many values as the normality sample holds, and one more
AtCap == NumericColumn([i \in 1..ShapiroSampleCap |-> IF i = 1 THEN 0 ELSE 1])

OverCap == NumericColumn([i \in 1..(ShapiroSampleCap + 1) |-> IF i = 1 THEN 0 ELSE 1])

SamplingTables == {<<c>> : c \in SmallColumns \cup {AtCap, OverCap}}

Tables ==
    {<<c>> : c \in SmallColumns \cup ScenarioColumns}
    \cup TwoColumnTables \cup ThreeColumnTables \cup ScenarioTables

\* the multipliers k and thresholds the engine is called with, in halves
K2s == {0, 2, DefaultK2}

Threshold2s == {0, 3, DefaultThreshold2}

NoCall == [op |-> "none"]

\* calculate_distribution_stats reaches the normality test on this column
ReachesShapiro(series) ==
    /\ Len(DropNa(series)) >= 3
    /\ IsNumeric(series)
    /\ SampleSize(DropNa(series)) >= 3

\* the samples a call can draw and what the test can do on one; nothing is
\* drawn and nothing tested when the call does not reach the test
SamplesOf(series) ==
    IF ReachesShapiro(series) THEN ShapiroSample(DropNa(series)) ELSE {None}

ResultsOn(series) ==
    IF ReachesShapiro(series) THEN ShapiroResults ELSE {None}

\* most load runs started in one behaviour
MaxLoads == 2

Loads == 1..MaxLoads

\* no table has been handed to the engine
NoTable == <<>>

\* DataManager.__init__
NewDataManager ==
    [_dataframe |-> None, _file_path |-> None, _loading_progress |-> 0,
     _is_loading |-> FALSE, _load_error |-> None]

\* a loader thread: its position, its argument, the rows the reader has
\* parsed, the frame under construction, its local df (a DataFrame is the
\* table and the load run that built it), the exception it
\* caught, the completion callbacks it has made, and what the manager held
\* when load_file was called
NoThread ==
    [pc |-> "unstarted", file_path |-> "", rows |-> 0, building |-> NoTable,
     df |-> None, error |-> None, callbacks |-> <<>>,
     before |-> [_dataframe |-> None, _file_path |-> None]]

\* the main thread: the handler it is in (idle: waiting in the event loop),
\* DataLoaderPanel._loading, the columns listed by the variable selector,
\* the load whose report it is handling, the locals of
\* _on_variable_selected, and the dataframes (by the load run that built
\* them) that the reads of self._dataframe in get_column_data returned
NewUi ==
    [pc |-> "idle", _loading |-> FALSE, listed |-> {}, load |-> 0,
     cause |-> "none", stage |-> "none", column_name |-> 0, frame |-> None,
     seen |-> <<>>]

LoaderIdle ==
    /\ dm = NewDataManager
    /\ threads = [id \in Loads |-> NoThread]
    /\ ui = NewUi
    /\ events = <<>>

\* the engine called on a table, the loader at rest
Init ==
    /\ df \in Tables
    /\ call = NoCall
    /\ result = None
    /\ LoaderIdle

---------------------------------------------------------------------------
(* The calls.  The engine is synchronous and single-threaded: a call runs
   to completion and returns its structure before the next one starts. *)

CallBasicStats(col) ==
    /\ call = NoCall
    /\ call' = [op |-> "calculate_basic_stats", before |-> None, col |-> col]
    /\ result' = Some(calculate_basic_stats(df[col]))
    /\ UNCHANGED <<df, loadVars>>

\* sample is the sample drawn for the normality test and shapiro_result
\* what the test does on it
CallDistributionStats(col, sample, shapiro_result) ==
    /\ call = NoCall
    /\ call' = [op |-> "calculate_distribution_stats", before |-> None, col |-> col,
                sample |-> sample, shapiro_result |-> shapiro_result]
    /\ result' = Some(calculate_distribution_stats(df[col], shapiro_result))
    /\ UNCHANGED <<df, loadVars>>

CallColumnMissing(col) ==
    /\ call = NoCall
    /\ call' = [op |-> "analyze_column_missing", before |-> None, col |-> col]
    /\ result' = Some(analyze_column_missing(df[col]))
    /\ UNCHANGED <<df, loadVars>>

CallMissingData ==
    /\ call = NoCall
    /\ call' = [op |-> "analyze_missing_data", before |-> None]
    /\ result' = Some(analyze_missing_data(df))
    /\ UNCHANGED <<df, loadVars>>

CallQualitySummary ==
    /\ call = NoCall
    /\ call' = [op |-> "get_quality_summary", before |-> None]
    /\ result' = Some(get_quality_summary(df))
    /\ UNCHANGED <<df, loadVars>>

CallOutliersIqr(col, k2) ==
    /\ call = NoCall
    /\ call' = [op |-> "detect_outliers_iqr", before |-> None, col |-> col, k2 |-> k2]
    /\ result' = Some(detect_outliers_iqr(df[col], k2))
    /\ UNCHANGED <<df, loadVars>>

CallOutliersZscore(col, threshold2) ==
    /\ call = NoCall
    /\ call' = [op |-> "detect_outliers_zscore", before |-> None, col |-> col,
                threshold2 |-> threshold2]
    /\ result' = Some(detect_outliers_zscore(df[col], threshold2))
    /\ UNCHANGED <<df, loadVars>>

CallOutlierSummary(col) ==
    /\ call = NoCall
    /\ call' = [op |-> "get_outlier_summary", before |-> None, col |-> col]
    /\ result' = Some(get_outlier_summary(df[col]))
    /\ UNCHANGED <<df, loadVars>>

\* the engine method call.op on the arguments of the call
Apply(c, table) ==
    CASE c.op = "calculate_basic_stats" -> calculate_basic_stats(table[c.col])
      [] c.op = "calculate_distribution_stats" ->
             calculate_distribution_stats(table[c.col], c.shapiro_result)
      [] c.op = "analyze_column_missing" -> analyze_column_missing(table[c.col])
      [] c.op = "analyze_missing_data" -> analyze_missing_data(table)
      [] c.op = "get_quality_summary" -> get_quality_summary(table)
      [] c.op = "detect_outliers_iqr" -> detect_outliers_iqr(table[c.col], c.k2)
      [] c.op = "detect_outliers_zscore" ->
             detect_outliers_zscore(table[c.col], c.threshold2)
      [] c.op = "get_outlier_summary" -> get_outlier_summary(table[c.col])

\* the same call with the same arguments made again; before is what it
\* returned the time before.  calculate_distribution_stats draws its sample
\* again; shapiro is a function of its sample, so on the sample it was
\* handed the time before it does what it did then
Again(c, res, table) ==
    IF c.op = "calculate_distribution_stats"
    THEN {[c EXCEPT !.before = res, !.sample = s, !.shapiro_result = r] :
             <<s, r>> \in {d \in SamplesOf(table[c.col]) \X ResultsOn(table[c.col]) :
                               d[1] = c.sample => d[2] = c.shapiro_result}}
    ELSE {[c EXCEPT !.before = res]}

Repeat ==
    /\ call # NoCall
    /\ call' \in Again(call, result, df)
    /\ result' = Some(Apply(call', df))
    /\ UNCHANGED <<df, loadVars>>

\* the caller drops the returned structure; the engine keeps nothing
Discard ==
    /\ call # NoCall
    /\ call' = NoCall
    /\ result' = None
    /\ UNCHANGED <<df, loadVars>>

Next ==
    \/ \E col \in 1..Len(df) : CallBasicStats(col)
    \/ \E col \in 1..Len(df) :
          \E sample \in SamplesOf(df[col]), r \in ResultsOn(df[col]) :
              CallDistributionStats(col, sample, r)
    \/ \E col \in 1..Len(df) : CallColumnMissing(col)
    \/ CallMissingData
    \/ CallQualitySummary
    \/ \E col \in 1..Len(df), k2 \in K2s : CallOutliersIqr(col, k2)
    \/ \E col \in 1..Len(df), t2 \in Threshold2s : CallOutliersZscore(col, t2)
    \/ \E col \in 1..Len(df) : CallOutlierSummary(col)
    \/ Repeat
    \/ Discard

Spec == Init /\ [][Next]_vars

\* the engine on the small columns and on two columns at the limit of the
\* normality sample
InitSampling ==
    /\ df \in SamplingTables
    /\ call = NoCall
    /\ result = None
    /\ LoaderIdle

SpecSampling == InitSampling /\ [][Next]_vars

---------------------------------------------------------------------------
(* Loading.  DataManager.load_file reads the file on a background thread
   and reports through the completion callback; DataLoaderPanel hands the
   report to the main thread with after(0, ...), and the main thread then
   runs GUIApplication._on_data_loaded.  The steps are the statements of
   the loader thread and the reads the main thread makes of the manager;
   the widgets (labels, progress bar, figures) are left out. *)

TableA == <<NumericColumn(<<0, 1>>), [dtype |-> "categorical", data |-> <<2, NA>>]>>

TableB == <<NumericColumn(<<2, NA, 1>>)>>

\* a header and no row
HeaderOnly == <<[dtype |-> "categorical", data |-> <<>>]>>

\* the files the user can pick: what is on disk under each path, and the
\* DataFrame pandas builds from it (parses: the reader does not raise)
Paths == {"a.csv", "b.csv", "empty.csv", "broken.csv", "notes.txt", "gone.csv"}

Disk(path) ==
    CASE path = "a.csv" ->
             [exists |-> TRUE, extension |-> "csv", parses |-> TRUE, table |-> TableA]
      [] path = "b.csv" ->
             [exists |-> TRUE, extension |-> "csv", parses |-> TRUE, table |-> TableB]
      [] path = "empty.csv" ->
             [exists |-> TRUE, extension |-> "csv", parses |-> TRUE, table |-> HeaderOnly]
      [] path = "broken.csv" ->
             [exists |-> TRUE, extension |-> "csv", parses |-> FALSE, table |-> TableB]
      [] path = "notes.txt" ->
             [exists |-> TRUE, extension |-> "txt", parses |-> TRUE, table |-> TableA]
      [] path = "gone.csv" ->
             [exists |-> FALSE, extension |-> "csv", parses |-> FALSE, table |-> NoTable]

SUPPORTED_EXTENSIONS == {"csv", "xlsx", "xls", "json"}

\* helpers.validate_file_extension: <<is_valid, message>>
validate_file_extension(path) ==
    IF ~Disk(path).exists THEN <<FALSE, "El archivo no existe">>
    ELSE IF Disk(path).extension \notin SUPPORTED_EXTENSIONS
         THEN <<FALSE, "Extension no valida">>
         ELSE <<TRUE, "Archivo valido">>

\* len(df)
NumRows(table) == IF Len(table) = 0 THEN 0 ELSE Len(table[1].data)

\* the frame the reader has built after k rows of the file
HeadRows(table, k) ==
    [c \in DOMAIN table |-> [table[c] EXCEPT !.data = SubSeq(@, 1, k)]]

\* df.empty: some axis has length 0
Empty(table) == Len(table) = 0 \/ NumRows(table) = 0

\* the rows the reader gets through before it raises on a file it cannot parse
RowsBeforeError == 1

\* DataManager.is_loaded
is_loaded == dm._dataframe # None

\* ---- the loader thread: _load_thread of DataManager.load_file ----

At(id, pc) == threads[id].pc = pc

Goto(id, pc) == threads' = [threads EXCEPT ![id].pc = pc]

Raise(id, message) ==
    threads' = [threads EXCEPT ![id].pc = "except", ![id].error = Some(message)]

_load_thread_start(id) ==
    /\ At(id, "start")
    /\ dm' = [dm EXCEPT !._is_loading = TRUE, !._load_error = None,
                        !._loading_progress = 0]
    /\ Goto(id, "validate")
    /\ UNCHANGED <<df, call, result, ui, events>>

_load_thread_validate(id) ==
    /\ At(id, "validate")
    /\ LET v == validate_file_extension(threads[id].file_path)
       IN  IF v[1]
           THEN /\ dm' = [dm EXCEPT !._loading_progress = 10]
                /\ Goto(id, "read")
           ELSE /\ Raise(id, v[2])
                /\ UNCHANGED dm
    /\ UNCHANGED <<df, call, result, ui, events>>

\* load_csv: the reader parses the file into a frame of its own, which
\* becomes the local df when the reader returns
_load_thread_read(id) ==
    /\ At(id, "read")
    /\ LET t    == threads[id]
           file == Disk(t.file_path)
       IN  IF ~file.parses /\ t.rows = RowsBeforeError
           THEN /\ Raise(id, "No se pudo leer el archivo")
                /\ dm' = [dm EXCEPT !._loading_progress = 30]
           ELSE IF t.rows < NumRows(file.table)
           THEN /\ threads' = [threads EXCEPT
                                  ![id].rows = t.rows + 1,
                                  ![id].building = HeadRows(file.table, t.rows + 1)]
                /\ dm' = [dm EXCEPT !._loading_progress = 30]
           ELSE /\ threads' = [threads EXCEPT
                                  ![id].df = Some([load |-> id, table |-> t.building]),
                                  ![id].pc = "check_empty"]
                /\ dm' = [dm EXCEPT !._loading_progress = 70]
    /\ UNCHANGED <<df, call, result, ui, events>>

_load_thread_check_empty(id) ==
    /\ At(id, "check_empty")
    /\ IF Empty(threads[id].df[1].table)
       THEN /\ Raise(id, "El archivo esta vacio")
            /\ UNCHANGED dm
       ELSE /\ dm' = [dm EXCEPT !._loading_progress = 90]
            /\ Goto(id, "store_dataframe")
    /\ UNCHANGED <<df, call, result, ui, events>>

_load_thread_store_dataframe(id) ==
    /\ At(id, "store_dataframe")
    /\ dm' = [dm EXCEPT !._dataframe = threads[id].df]
    /\ Goto(id, "store_file_path")
    /\ UNCHANGED <<df, call, result, ui, events>>

_load_thread_store_file_path(id) ==
    /\ At(id, "store_file_path")
    /\ dm' = [dm EXCEPT !._file_path = Some(threads[id].file_path),
                        !._loading_progress = 100]
    /\ Goto(id, "summary")
    /\ UNCHANGED <<df, call, result, ui, events>>

\* get_dataset_summary returns {} when nothing is loaded and the message
\* then raises KeyError
_load_thread_summary(id) ==
    /\ At(id, "summary")
    /\ IF is_loaded THEN Goto(id, "callback") ELSE Raise(id, "'n_rows'")
    /\ UNCHANGED <<df, call, result, dm, ui, events>>

\* DataLoaderPanel._on_load_complete: after(0, _handle_load_result)
_on_load_complete(id, success) ==
    /\ events' = Append(events, [success |-> success, load |-> id])
    /\ threads' = [threads EXCEPT ![id].pc = "finally",
                                  ![id].callbacks = Append(@, success)]

_load_thread_callback(id) ==
    /\ At(id, "callback")
    /\ _on_load_complete(id, TRUE)
    /\ UNCHANGED <<df, call, result, dm, ui>>

_load_thread_except(id) ==
    /\ At(id, "except")
    /\ dm' = [dm EXCEPT !._load_error = threads[id].error]
    /\ _on_load_complete(id, FALSE)
    /\ UNCHANGED <<df, call, result, ui>>

_load_thread_finally(id) ==
    /\ At(id, "finally")
    /\ dm' = [dm EXCEPT !._is_loading = FALSE]
    /\ Goto(id, "done")
    /\ UNCHANGED <<df, call, result, ui, events>>

\* ---- the main thread ----

\* the handler returns to the event loop; its locals and the structures
\* the engine returned to it are dropped
Return ==
    /\ ui' = [ui EXCEPT !.pc = "idle", !.load = 0, !.cause = "none",
                        !.stage = "none", !.column_name = 0, !.frame = None,
                        !.seen = <<>>]
    /\ df' = NoTable
    /\ call' = NoCall
    /\ result' = None

\* load_file: threading.Thread(target=_load_thread, daemon=True).start()
StartThread(path) ==
    \E id \in Loads :
       /\ At(id, "unstarted")
       /\ \A j \in 1..(id - 1) : ~At(j, "unstarted")
       /\ threads' = [threads EXCEPT
                         ![id].pc = "start",
                         ![id].file_path = path,
                         ![id].before = [_dataframe |-> dm._dataframe,
                                         _file_path |-> dm._file_path]]

\* DataLoaderPanel._on_load_click and _start_loading: load_file starts the
\* thread and returns
_on_load_click(path) ==
    /\ ui.pc = "idle"
    /\ ~ui._loading
    /\ StartThread(path)
    /\ ui' = [ui EXCEPT !._loading = TRUE]
    /\ UNCHANGED <<df, call, result, dm, events>>

\* if success: the branch of _handle_load_result that ends in on_data_loaded
RunsOnDataLoaded_Always(success) == TRUE

RunsOnDataLoaded(success) == success

\* DataLoaderPanel._handle_load_result up to the dialog it opens; the
\* success branch reads summary['file_name'] first, a KeyError when
\* nothing is loaded
_handle_load_result ==
    /\ ui.pc = "idle"
    /\ events # <<>>
    /\ events' = Tail(events)
    /\ LET ev == Head(events)
       IN  IF RunsOnDataLoaded(ev.success)
           THEN IF is_loaded
                THEN ui' = [ui EXCEPT !._loading = FALSE, !.pc = "show_success",
                                      !.load = ev.load, !.cause = "loaded"]
                ELSE ui' = [ui EXCEPT !._loading = FALSE]
           ELSE ui' = [ui EXCEPT !._loading = FALSE, !.pc = "show_error",
                                 !.load = ev.load]
    /\ UNCHANGED <<df, call, result, dm, threads>>

\* the user closes the modal dialog (wait_window returns); after the
\* success dialog the handler goes on to on_data_loaded
DialogClosed ==
    \/ /\ ui.pc = "show_success"
       /\ ui' = [ui EXCEPT !.pc = "update_info"]
       /\ UNCHANGED <<df, call, result, dm, threads, events>>
    \/ /\ ui.pc \in {"show_error", "show_info"}
       /\ Return
       /\ UNCHANGED <<dm, threads, events>>

\* _on_data_loaded: dataset_info.update_info() and
\* variable_selector.update_variables(), which lists the columns of the
\* dataframe
_on_data_loaded_update_variables ==
    /\ ui.pc = "update_info"
    /\ ui' = [ui EXCEPT !.pc = "update_missing_overview",
                        !.listed = IF is_loaded THEN DOMAIN dm._dataframe[1].table ELSE {}]
    /\ UNCHANGED <<df, call, result, dm, threads, events>>

\* plot_missing_bar: (df.isna().sum() / len(df)) * 100, largest first
plot_missing_bar(table) ==
    SortSeq([c \in DOMAIN table |-> Rat(IsNaSum(table[c]), NumRows(table))],
            LAMBDA a, b : RatLT(b, a))

\* _on_data_loaded: viz_panel.update_missing_overview() and
\* stats_panel.reset()
_on_data_loaded_update_missing_overview ==
    /\ ui.pc = "update_missing_overview"
    /\ ui' = [ui EXCEPT !.pc = "get_numeric_columns"]
    /\ IF is_loaded
       THEN /\ df' = dm._dataframe[1].table
            /\ call' = [op |-> "plot_missing_bar", before |-> None,
                        load |-> dm._dataframe[1].load]
            /\ result' = Some(plot_missing_bar(dm._dataframe[1].table))
       ELSE UNCHANGED <<df, call, result>>
    /\ UNCHANGED <<dm, threads, events>>

\* DataManager.get_numeric_columns
get_numeric_columns ==
    IF is_loaded
    THEN {c \in DOMAIN dm._dataframe[1].table : IsNumeric(dm._dataframe[1].table[c])}
    ELSE {}

\* _on_data_loaded: the first numeric column, if there is one, is selected
_on_data_loaded_select_first ==
    /\ ui.pc = "get_numeric_columns"
    /\ IF get_numeric_columns # {}
       THEN /\ ui' = [ui EXCEPT !.pc = "is_loaded", !.stage = "update_statistics",
                                !.column_name = SetMin(get_numeric_columns)]
            /\ UNCHANGED <<df, call, result>>
       ELSE Return
    /\ UNCHANGED <<dm, threads, events>>

\* the user picks one of the listed variables: _on_variable_selected
_on_variable_selected(column_name) ==
    /\ ui.pc = "idle"
    /\ column_name \in ui.listed
    /\ ui' = [ui EXCEPT !.pc = "is_loaded", !.stage = "update_statistics",
                        !.cause = "user", !.column_name = column_name]
    /\ UNCHANGED <<df, call, result, dm, threads, events>>

\* the user types in the search box: _update_variable_list
_update_variable_list ==
    /\ ui.pc = "idle"
    /\ is_loaded
    /\ ui.listed # DOMAIN dm._dataframe[1].table
    /\ ui' = [ui EXCEPT !.listed = DOMAIN dm._dataframe[1].table]
    /\ UNCHANGED <<df, call, result, dm, threads, events>>

\* update_statistics or update_visualizations returns before it has
\* calculated anything
PanelReturns ==
    IF ui.stage = "update_statistics"
    THEN /\ ui' = [ui EXCEPT !.pc = "is_loaded", !.stage = "update_visualizations",
                             !.frame = None, !.seen = <<>>]
         /\ UNCHANGED <<df, call, result>>
    ELSE Return

\* if not self.data_manager.is_loaded: return
PanelIsLoaded ==
    /\ ui.pc = "is_loaded"
    /\ IF is_loaded
       THEN /\ ui' = [ui EXCEPT !.pc = "get_column_data"]
            /\ UNCHANGED <<df, call, result>>
       ELSE PanelReturns
    /\ UNCHANGED <<dm, threads, events>>

\* get_column_data: not self.is_loaded
get_column_data_is_loaded ==
    /\ ui.pc = "get_column_data"
    /\ IF is_loaded
       THEN /\ ui' = [ui EXCEPT !.pc = "columns",
                                !.seen = <<dm._dataframe[1].load>>]
            /\ UNCHANGED <<df, call, result>>
       ELSE PanelReturns
    /\ UNCHANGED <<dm, threads, events>>

\* get_column_data: column_name not in self._dataframe.columns
get_column_data_columns ==
    /\ ui.pc = "columns"
    /\ IF is_loaded /\ ui.column_name \in DOMAIN dm._dataframe[1].table
       THEN /\ ui' = [ui EXCEPT !.pc = "getitem",
                                !.seen = Append(@, dm._dataframe[1].load)]
            /\ UNCHANGED <<df, call, result>>
       ELSE IF is_loaded THEN PanelReturns ELSE Return
    /\ UNCHANGED <<dm, threads, events>>

\* get_column_data: return self._dataframe[column_name], which raises
\* KeyError when the dataframe has no such column
get_column_data_getitem ==
    /\ ui.pc = "getitem"
    /\ IF is_loaded /\ ui.column_name \in DOMAIN dm._dataframe[1].table
       THEN ui' = [ui EXCEPT !.pc = "calculate", !.frame = dm._dataframe,
                             !.seen = Append(@, dm._dataframe[1].load)]
       ELSE ui' = [ui EXCEPT !.pc = "KeyError"]
    /\ UNCHANGED <<df, call, result, dm, threads, events>>

\* the KeyError leaves update_statistics or update_visualizations and the
\* handler that called it; the event loop reports it and goes on
get_column_data_raises ==
    /\ ui.pc = "KeyError"
    /\ Return
    /\ UNCHANGED <<dm, threads, events>>

\* update_statistics: the four engine calls on the series
update_statistics(shapiro_result) ==
    /\ ui.pc = "calculate"
    /\ ui.stage = "update_statistics"
    /\ LET series == ui.frame[1].table[ui.column_name]
       IN  /\ shapiro_result \in ResultsOn(series)
           /\ result' = Some([basic_stats |-> calculate_basic_stats(series),
                              dist_stats |->
                                  calculate_distribution_stats(series, shapiro_result),
                              missing_stats |-> analyze_column_missing(series),
                              outlier_stats |-> detect_outliers_iqr(series, DefaultK2)])
    /\ df' = ui.frame[1].table
    /\ call' = [op |-> "update_statistics", before |-> None, col |-> ui.column_name,
                load |-> ui.frame[1].load]
    /\ ui' = [ui EXCEPT !.pc = "is_loaded", !.stage = "update_visualizations",
                        !.frame = None, !.seen = <<>>]
    /\ UNCHANGED <<dm, threads, events>>

\* update_visualizations: the two engine calls on the series
update_visualizations ==
    /\ ui.pc = "calculate"
    /\ ui.stage = "update_visualizations"
    /\ LET series == ui.frame[1].table[ui.column_name]
       IN  result' = Some([basic_stats |-> calculate_basic_stats(series),
                           outlier_info |-> detect_outliers_iqr(series, DefaultK2)])
    /\ df' = ui.frame[1].table
    /\ call' = [op |-> "update_visualizations", before |-> None,
                col |-> ui.column_name, load |-> ui.frame[1].load]
    /\ ui' = [ui EXCEPT !.pc = "plot_missing_bar", !.frame = None, !.seen = <<>>]
    /\ UNCHANGED <<dm, threads, events>>

\* update_visualizations: df = self.data_manager.dataframe for the
\* missing-data chart; the exception on None is caught and logged
update_visualizations_missing ==
    /\ ui.pc = "plot_missing_bar"
    /\ IF is_loaded
       THEN /\ df' = dm._dataframe[1].table
            /\ call' = [op |-> "plot_missing_bar", before |-> None,
                        load |-> dm._dataframe[1].load]
            /\ result' = Some(plot_missing_bar(dm._dataframe[1].table))
       ELSE UNCHANGED <<df, call, result>>
    /\ ui' = [ui EXCEPT !.pc = "return"]
    /\ UNCHANGED <<dm, threads, events>>

\* _on_variable_selected returns
HandlerReturns ==
    /\ ui.pc = "return"
    /\ Return
    /\ UNCHANGED <<dm, threads, events>>

\* the user clicks "copy statistics": ReportPanel._on_copy_click, which
\* shows an error when nothing is loaded and else asks for the summary
_on_copy_click ==
    /\ ui.pc = "idle"
    /\ ui' = [ui EXCEPT !.pc = IF is_loaded THEN "get_dataset_summary"
                                            ELSE "show_error",
                        !.cause = "user"]
    /\ UNCHANGED <<df, call, result, dm, threads, events>>

\* get_dataset_summary: df = self._dataframe, from which the row and
\* column counts are taken
get_dataset_summary_dataframe ==
    /\ ui.pc = "get_dataset_summary"
    /\ ui' = [ui EXCEPT !.pc = "file_name", !.frame = dm._dataframe]
    /\ UNCHANGED <<df, call, result, dm, threads, events>>

\* get_dataset_summary: the returned dictionary, with
\* 'file_name': os.path.basename(self._file_path) if self._file_path else None;
\* the text made of it is copied and a dialog says so
get_dataset_summary_file_name ==
    /\ ui.pc = "file_name"
    /\ df' = ui.frame[1].table
    /\ call' = [op |-> "get_dataset_summary", before |-> None,
                load |-> ui.frame[1].load]
    /\ result' = Some([n_rows    |-> NumRows(ui.frame[1].table),
                       n_columns |-> Len(ui.frame[1].table),
                       file_name |-> dm._file_path])
    /\ ui' = [ui EXCEPT !.pc = "show_info", !.frame = None]
    /\ UNCHANGED <<dm, threads, events>>

NextLoad ==
    \/ \E path \in Paths : _on_load_click(path)
    \/ \E id \in Loads : _load_thread_start(id)
    \/ \E id \in Loads : _load_thread_validate(id)
    \/ \E id \in Loads : _load_thread_read(id)
    \/ \E id \in Loads : _load_thread_check_empty(id)
    \/ \E id \in Loads : _load_thread_store_dataframe(id)
    \/ \E id \in Loads : _load_thread_store_file_path(id)
    \/ \E id \in Loads : _load_thread_summary(id)
    \/ \E id \in Loads : _load_thread_callback(id)
    \/ \E id \in Loads : _load_thread_except(id)
    \/ \E id \in Loads : _load_thread_finally(id)
    \/ _handle_load_result
    \/ DialogClosed
    \/ _on_data_loaded_update_variables
    \/ _on_data_loaded_update_missing_overview
    \/ _on_data_loaded_select_first
    \/ \E column_name \in ui.listed : _on_variable_selected(column_name)
    \/ _update_variable_list
    \/ PanelIsLoaded
    \/ get_column_data_is_loaded
    \/ get_column_data_columns
    \/ get_column_data_getitem
    \/ get_column_data_raises
    \/ \E r \in ShapiroResults \cup {None} : update_statistics(r)
    \/ update_visualizations
    \/ update_visualizations_missing
    \/ HandlerReturns
    \/ _on_copy_click
    \/ get_dataset_summary_dataframe
    \/ get_dataset_summary_file_name

\* the application after construction: nothing loaded, no thread started
InitLoad ==
    /\ df = NoTable
    /\ call = NoCall
    /\ result = None
    /\ LoaderIdle

SpecLoad == InitLoad /\ [][NextLoad]_vars

\* a statement of the loader thread
_load_thread(id) ==
    \/ _load_thread_start(id)
    \/ _load_thread_validate(id)
    \/ _load_thread_read(id)
    \/ _load_thread_check_empty(id)
    \/ _load_thread_store_dataframe(id)
    \/ _load_thread_store_file_path(id)
    \/ _load_thread_summary(id)
    \/ _load_thread_callback(id)
    \/ _load_thread_except(id)
    \/ _load_thread_finally(id)

\* the main thread goes on in the handler it is in, without the user,
\* up to the engine calls
MainThreadStep ==
    \/ _on_data_loaded_update_variables
    \/ _on_data_loaded_update_missing_overview
    \/ _on_data_loaded_select_first
    \/ PanelIsLoaded
    \/ get_column_data_is_loaded
    \/ get_column_data_columns
    \/ get_column_data_getitem
    \/ get_column_data_raises
    \/ update_visualizations_missing
    \/ HandlerReturns
    \/ get_dataset_summary_dataframe
    \/ get_dataset_summary_file_name

\* the engine calls of update_statistics and update_visualizations return:
\* one of the two is enabled exactly when the main thread is at them, so
\* this is their weak fairness
EngineCallsReturn == []<>(ui.pc # "calculate")

\* the dialog opened by _on_copy_click is closed.  A report that arrives
\* while it is open is served by the dialog's own event loop (wait_window);
\* here it is served once the dialog has gone
CopyDialogClosed ==
    /\ ui.cause = "user"
    /\ DialogClosed

\* a started thread is scheduled again and again, a handler that has begun
\* runs to its end, and the event loop serves every after(0, ...) event
\* once it is back; what the user does (picking a file, closing the dialog
\* of a load, selecting a variable) is not required
FairLoad ==
    /\ \A id \in Loads : WF_vars(_load_thread(id))
    /\ WF_vars(MainThreadStep)
    /\ WF_vars(CopyDialogClosed)
    /\ EngineCallsReturn
    /\ SF_vars(_handle_load_result)

SpecLoadFair == SpecLoad /\ FairLoad

(* DataManager used without the panel: a caller that hands load_file
   callbacks of its own, which return or raise, waits for the run to end,
   and calls load_file_sync.  The reports the completion callback returned
   from are kept in events. *)

\* no load run is between its start and its end
NoRunInFlight == \A id \in Loads : At(id, "unstarted") \/ At(id, "done")

\* load_file(file_path, progress_callback, completion_callback)
load_file(path) ==
    /\ NoRunInFlight
    /\ StartThread(path)
    /\ call' = NoCall
    /\ result' = None
    /\ UNCHANGED <<df, dm, ui, events>>

\* progress_callback(...) raises: the calls after the validation, after the
\* reader, after the check of df.empty and after the two stores
progress_callback_raises(id) ==
    /\ \/ At(id, "read") /\ threads[id].rows = 0
       \/ At(id, "check_empty")
       \/ At(id, "store_dataframe")
       \/ At(id, "summary")
    /\ Raise(id, "progress_callback")
    /\ UNCHANGED <<df, call, result, dm, ui, events>>

\* completion_callback(...) raises: the call in the try block is caught by
\* the except clause, which calls it again; the call in the except clause
\* ends the thread after the finally clause
completion_callback_raises(id) ==
    /\ \/ /\ At(id, "callback")
          /\ threads' = [threads EXCEPT ![id].pc = "except",
                                        ![id].error = Some("completion_callback"),
                                        ![id].callbacks = Append(@, TRUE)]
          /\ UNCHANGED dm
       \/ /\ At(id, "except")
          /\ dm' = [dm EXCEPT !._load_error = threads[id].error]
          /\ threads' = [threads EXCEPT ![id].pc = "finally",
                                        ![id].callbacks = Append(@, FALSE)]
    /\ UNCHANGED <<df, call, result, ui, events>>

\* load_file_sync: <<success, message>>; load_csv sets the progress to 30
\* before it reads and to 70 after
load_file_sync(path) ==
    /\ NoRunInFlight
    /\ LET v    == validate_file_extension(path)
           file == Disk(path)
       IN  IF ~v[1]
           THEN /\ result' = Some(<<FALSE, v[2]>>)
                /\ UNCHANGED dm
           ELSE IF ~file.parses
           THEN /\ result' = Some(<<FALSE, "No se pudo leer el archivo">>)
                /\ dm' = [dm EXCEPT !._loading_progress = 30]
           ELSE IF Empty(file.table)
           THEN /\ result' = Some(<<FALSE, "El archivo esta vacio">>)
                /\ dm' = [dm EXCEPT !._loading_progress = 70]
           ELSE /\ result' = Some(<<TRUE, "Cargado">>)
                /\ dm' = [dm EXCEPT !._loading_progress = 70,
                                    !._dataframe = Some([load |-> 0, table |-> file.table]),
                                    !._file_path = Some(path)]
    /\ call' = [op |-> "load_file_sync", before |-> None, file_path |-> path,
                dm |-> dm]
    /\ UNCHANGED <<df, threads, ui, events>>

NextApi ==
    \/ \E path \in Paths : load_file(path)
    \/ \E id \in Loads : _load_thread_start(id)
    \/ \E id \in Loads : _load_thread_validate(id)
    \/ \E id \in Loads : _load_thread_read(id)
    \/ \E id \in Loads : _load_thread_check_empty(id)
    \/ \E id \in Loads : _load_thread_store_dataframe(id)
    \/ \E id \in Loads : _load_thread_store_file_path(id)
    \/ \E id \in Loads : _load_thread_summary(id)
    \/ \E id \in Loads : _load_thread_callback(id)
    \/ \E id \in Loads : _load_thread_except(id)
    \/ \E id \in Loads : _load_thread_finally(id)
    \/ \E id \in Loads : progress_callback_raises(id)
    \/ \E id \in Loads : completion_callback_raises(id)
    \/ \E path \in Paths : load_file_sync(path)

SpecApi == InitLoad /\ [][NextApi]_vars

\* the column and the result of the last call
Series == df[call.col]

Res == result[1]

---------------------------------------------------------------------------
(* Properties.  The reference notions below are stated from the column
   itself, not from the engine's intermediate values. *)

IsCall(op) == call.op = op

PresentPositions(series) == {i \in 1..Len(series.data) : series.data[i] # NA}

MissingPositions(series) == (1..Len(series.data)) \ PresentPositions(series)

NumPresent(series) == Cardinality(PresentPositions(series))

NumMissing(series) == Cardinality(MissingPositions(series))

\* C1: for every column the result of calculate_basic_stats satisfies
\* missing + count = count_total.
C1_MissingPlusCount ==
    IsCall("calculate_basic_stats") => Res.missing + Res.count = Res.count_total

\* a column with present and with missing cells has been summarised
C1_Witness ==
    /\ IsCall("calculate_basic_stats")
    /\ Res.missing > 0
    /\ Res.count > 0
    /\ NumMissing(Series) > 0

\* C2: calculate_basic_stats reports count = the number of present cells,
\* missing = the number of missing cells and missing_pct = 100 * missing /
\* length, for every column.
C2_CountsMatchColumn ==
    IsCall("calculate_basic_stats") =>
        /\ Res.count = NumPresent(Series)
        /\ Res.missing = NumMissing(Series)
        /\ Len(Series.data) > 0 =>
               Res.missing_pct = Rat(NumMissing(Series), Len(Series.data))

\* C3: on a column without present values (empty or fully missing)
\* calculate_basic_stats returns the empty structure: count = 0, unique = 0
\* and mean, median, mode, std, variance, min, max, range all null.
C3_EmptyBasicStats ==
    (IsCall("calculate_basic_stats") /\ NumPresent(Series) = 0) =>
        /\ Res.count = 0
        /\ Res.unique = 0
        /\ \A f \in {"mean", "median", "mode", "std", "variance", "min", "max", "range"} :
               Res[f] = None

\* a fully missing column of at least one cell has been summarised
C3_Witness ==
    /\ IsCall("calculate_basic_stats")
    /\ Len(Series.data) > 0
    /\ NumPresent(Series) = 0

IsOutlierCall == IsCall("detect_outliers_iqr") \/ IsCall("detect_outliers_zscore")

IsEmptyOutlierResult(r) ==
    /\ r.method = None
    /\ r.outlier_count = 0
    /\ r.outlier_pct = Rat(0, 1)
    /\ r.outlier_indices = <<>>
    /\ r.outlier_values = <<>>
    /\ r.lower_bound = None
    /\ r.upper_bound = None

\* the column without its missing cells
PresentOnly(series) ==
    [dtype |-> series.dtype,
     data  |-> SelectSeq(series.data, LAMBDA v : v # NA)]

\* at least two present values, all equal: the standard deviation is 0
ZeroStd(series) ==
    /\ NumPresent(series) >= 2
    /\ \A i, j \in PresentPositions(series) : series.data[i] = series.data[j]

Ordered(series) == SortSeq(PresentOnly(series).data, LAMBDA a, b : a < b)

\* x is the p-th percentile of the ordered data by linear interpolation: at
\* the fractional rank h = (n-1)*p/100 between the ranks i-1 <= h <= i
\* (counted from 0), x = data[i-1] + (h - (i-1)) * (data[i] - data[i-1])
IsInterpolated(x, ordered, p) ==
    LET n == Len(ordered)
    IN  IF n = 1 THEN x = Rat(ordered[1], 1)
        ELSE \E i \in 1..(n - 1) :
                /\ 100 * (i - 1) <= (n - 1) * p
                /\ (n - 1) * p <= 100 * i
                /\ x = RatAdd(Rat(ordered[i], 1),
                              RatMul(Rat((n - 1) * p - 100 * (i - 1), 100),
                                     Rat(ordered[i + 1] - ordered[i], 1)))

IqrRan == IsCall("detect_outliers_iqr") /\ Res.method = Some("IQR")

\* C5: for a numeric column with a present value detect_outliers_iqr returns
\* q1 and q3 = the 25th and 75th percentiles by linear interpolation (the
\* p25 and p75 of calculate_distribution_stats), iqr = q3 - q1 and the
\* bounds q1 - k*iqr and q3 + k*iqr; on [1,2,3,4,5,100] with k = 1.5:
\* q1 = 2.25, q3 = 4.75, iqr = 2.5, bounds [-1.5, 8.5], one outlier, 100.
C5_IqrQuartiles ==
    (IsCall("detect_outliers_iqr") /\ Series.dtype = "numeric"
        /\ NumPresent(Series) >= 1) =>
        /\ Res.method = Some("IQR")
        /\ IsInterpolated(Res.q1, Ordered(Series), 25)
        /\ IsInterpolated(Res.q3, Ordered(Series), 75)
        /\ NumPresent(Series) >= 3 =>
               \A r \in ShapiroResults :
                   LET d == calculate_distribution_stats(Series, r)
                   IN  /\ d.percentiles[25] = Some(Res.q1)
                       /\ d.percentiles[75] = Some(Res.q3)
        /\ Res.iqr = RatSub(Res.q3, Res.q1)
        /\ Res.lower_bound =
               Some(RatSub(Res.q1, RatMul(Rat(call.k2, 2), Res.iqr)))
        /\ Res.upper_bound =
               Some(RatAdd(Res.q3, RatMul(Rat(call.k2, 2), Res.iqr)))
        /\ (df = <<OneOutlier>> /\ call.k2 = DefaultK2) =>
               /\ Res.q1 = Rat(225, 100)
               /\ Res.q3 = Rat(475, 100)
               /\ Res.iqr = Rat(25, 10)
               /\ Res.lower_bound = Some(Rat(-15, 10))
               /\ Res.upper_bound = Some(Rat(85, 10))
               /\ Res.outlier_count = 1
               /\ Res.outlier_values = <<100>>

\* the IQR detector has run on [1,2,3,4,5,100] with the default k
C5_Witness ==
    /\ IqrRan
    /\ df = <<OneOutlier>>
    /\ call.k2 = DefaultK2
    /\ Res.outlier_values = <<100>>

\* C6: for a numeric column with a present value and k >= 0 the result of
\* detect_outliers_iqr satisfies lower_bound <= q1 <= q3 <= upper_bound.
C6_IqrBoundsOrdered ==
    (IsCall("detect_outliers_iqr") /\ Series.dtype = "numeric"
        /\ NumPresent(Series) >= 1 /\ call.k2 >= 0) =>
        /\ RatLE(Res.lower_bound[1], Res.q1)
        /\ RatLE(Res.q1, Res.q3)
        /\ RatLE(Res.q3, Res.upper_bound[1])

\* the IQR detector has run with k > 0 on a column whose quartiles differ
C6_Witness ==
    /\ IqrRan
    /\ call.k2 > 0
    /\ RatLT(Res.q1, Res.q3)
    /\ RatLT(Res.lower_bound[1], Res.q1)

ZscoreRan == IsCall("detect_outliers_zscore") /\ Res.method = Some("Z-Score")

\* v lies strictly outside [lower, upper]
BeyondBounds(v, lower, upper) ==
    RatLT(Rat(v, 1), lower) \/ RatLT(upper, Rat(v, 1))

\* |(v - mean) / std| > threshold, as  (v - mean)^2 > threshold^2 * std^2;
\* false when std is undefined (NaN)
AbsZExceeds(v, mean, std, threshold) ==
    LET dev == RatSub(Rat(v, 1), mean)
    IN  /\ ~IsNaN(std.sqrt_of)
        /\ RatLT(RatMul(RatMul(threshold, threshold), std.sqrt_of),
                 RatMul(dev, dev))

\* |(v - mean) / std| = threshold
AbsZEquals(v, mean, std, threshold) ==
    LET dev == RatSub(Rat(v, 1), mean)
    IN  /\ ~IsNaN(std.sqrt_of)
        /\ RatMul(RatMul(threshold, threshold), std.sqrt_of) = RatMul(dev, dev)

\* the positions of the column that qualify as outliers under the bounds
\* (IQR) or the mean, std and threshold (Z-score) the result reports
Qualifying(series, r) ==
    IF r.method = Some("IQR")
    THEN {i \in PresentPositions(series) :
              BeyondBounds(series.data[i], r.lower_bound[1], r.upper_bound[1])}
    ELSE {i \in PresentPositions(series) :
              AbsZExceeds(series.data[i], r.mean, r.std, r.threshold)}

ListedPositions(r) == {r.outlier_indices[j] + 1 : j \in 1..Len(r.outlier_indices)}

\* C7: membership is strict in both methods: a present value counts as an
\* outlier exactly when it is < lower_bound or > upper_bound (IQR), exactly
\* when |(value - mean)/std| > threshold (Z-score); a value equal to a bound,
\* or with |z| equal to the threshold, never counts.
C7_StrictMembership ==
    (IqrRan \/ ZscoreRan) =>
        /\ Res.outlier_count = Cardinality(Qualifying(Series, Res))
        /\ ListedPositions(Res) \subseteq Qualifying(Series, Res)
        /\ Res.outlier_count <= OutlierListCap =>
               ListedPositions(Res) = Qualifying(Series, Res)
        /\ \A j \in 1..Len(Res.outlier_values) :
               IF IqrRan
               THEN /\ Rat(Res.outlier_values[j], 1) # Res.lower_bound[1]
                    /\ Rat(Res.outlier_values[j], 1) # Res.upper_bound[1]
               ELSE ~AbsZEquals(Res.outlier_values[j], Res.mean, Res.std,
                                Res.threshold)

\* a detector has run on a column holding a value exactly on the boundary
\* (equal to an IQR bound with differing bounds, or with |z| = threshold > 0)
\* next to a value beyond it
C7_Witness ==
    /\ IqrRan \/ ZscoreRan
    /\ Res.outlier_count > 0
    /\ \E i \in PresentPositions(Series) :
          IF IqrRan
          THEN /\ Res.lower_bound # Res.upper_bound
               /\ Rat(Series.data[i], 1) \in {Res.lower_bound[1], Res.upper_bound[1]}
          ELSE /\ call.threshold2 > 0
               /\ AbsZEquals(Series.data[i], Res.mean, Res.std, Res.threshold)

\* the qualifying positions in column order
QualifyingSeq(series, r) ==
    SelectSeq([i \in 1..Len(series.data) |-> i],
              LAMBDA i : i \in Qualifying(series, r))

\* C8: the lists outlier_indices, outlier_values (and outlier_zscores) hold
\* exactly the first min(N, 100) qualifying entries in column order, aligned
\* with one another; outlier_count and outlier_pct come from all N.
C8_TruncatedLists ==
    (IqrRan \/ ZscoreRan) =>
        LET q == QualifyingSeq(Series, Res)
            N == Len(q)
            m == IF N < 100 THEN N ELSE 100
        IN  /\ Res.outlier_indices = [j \in 1..m |-> q[j] - 1]
            /\ Res.outlier_values = [j \in 1..m |-> Series.data[q[j]]]
            /\ ZscoreRan =>
                   Res.outlier_zscores =
                       [j \in 1..m |->
                           [dev |-> RatSub(Rat(Series.data[q[j]], 1), Res.mean),
                            std |-> Res.std]]
            /\ Res.outlier_count = N
            /\ Res.outlier_pct = Rat(N, NumPresent(Series))

\* a detector has found more than 100 outliers in a column with missing cells
C8_Witness ==
    /\ IqrRan \/ ZscoreRan
    /\ Res.outlier_count > 100
    /\ NumMissing(Series) > 0

\* the cells first..(first + len - 1) are all missing
MissingRun(series, first, len) ==
    \A i \in first..(first + len - 1) : series.data[i] = NA

\* the length of the longest run of consecutive missing cells
LongestMissingRun(series) ==
    LET n == Len(series.data)
    IN  SetMax({len \in 0..n : \E first \in 1..(n - len + 1) :
                                   MissingRun(series, first, len)})

ExpectedPattern(series) ==
    IF NumMissing(series) = 0 THEN "none"
    ELSE IF NumPresent(series) = 0 THEN "complete"
    ELSE IF 10 * LongestMissingRun(series) > Len(series.data) THEN "systematic"
    ELSE "random"

\* C9: analyze_column_missing classifies the pattern as none when nothing is
\* missing, complete when everything is, and otherwise systematic when the
\* longest run of missing cells is strictly greater than 10% of the length,
\* random when not; a run of 15 in 100 is systematic, 10 isolated missing
\* cells in 100 are random.
C9_PatternClassification ==
    IsCall("analyze_column_missing") =>
        /\ Res.pattern_type = ExpectedPattern(Series)
        /\ df = <<RunColumn(41, 15)>> => Res.pattern_type = "systematic"
        /\ df = <<IsolatedColumn>> => Res.pattern_type = "random"

\* a column of 100 cells with one run of 15 missing cells has been classified
C9_Witness ==
    /\ IsCall("analyze_column_missing")
    /\ df = <<RunColumn(41, 15)>>
    /\ Res.pattern_type = "systematic"

\* the two percentages, as real numbers, add up to 100
AddUpExactly(missing_pct, complete_pct) ==
    RatAdd(missing_pct, complete_pct) = Rat(1, 1)

\* the percentage pairs the last call returned
PctPairs ==
    IF IsCall("analyze_column_missing")
    THEN {<<Res.missing_pct, Res.complete_pct>>}
    ELSE {<<Res.column_details[j].missing_pct, Res.column_details[j].complete_pct>> :
              j \in 1..Len(Res.column_details)}

MissingCallOnRows ==
    \/ IsCall("analyze_column_missing") /\ Len(Series.data) >= 1
    \/ IsCall("analyze_missing_data") /\ Len(df[1].data) >= 1

\* C10 as claimed: for every column of length >= 1 analyze_column_missing
\* gives missing + complete = total and missing_pct + complete_pct = 100,
\* the sum of the two doubles being exactly 100.0; the same for the entries
\* of analyze_missing_data.
C10_SumIsExactly100 ==
    MissingCallOnRows =>
        /\ IsCall("analyze_column_missing") =>
               Res.missing + Res.complete = Res.total
        /\ \A pair \in PctPairs :
               /\ AddUpExactly(pair[1], pair[2])
               /\ F64PctSumUlps(pair[1], pair[2]) = 0

\* C10, amended: missing + complete = total, and missing_pct + complete_pct
\* is 100 within floating tolerance: the two doubles add up to 100.0 or to a
\* neighbouring double, one unit in the last place (2^-46) away.
C10_SumIs100WithinTolerance ==
    MissingCallOnRows =>
        /\ IsCall("analyze_column_missing") =>
               Res.missing + Res.complete = Res.total
        /\ \A pair \in PctPairs :
               /\ AddUpExactly(pair[1], pair[2])
               /\ F64PctSumUlps(pair[1], pair[2]) \in {-1, 0, 1}

\* a column with one missing cell of three has been analysed: the doubles
\* 33.33333333333333 and 66.66666666666666 add up to 99.99999999999999
C10_Witness ==
    /\ IsCall("analyze_column_missing")
    /\ Res.total = 3
    /\ Res.missing = 1
    /\ F64PctSumUlps(Res.missing_pct, Res.complete_pct) = -1

\* the number of missing cells of the whole table, counted cell by cell
TableMissing(table) ==
    Cardinality({<<c, r>> \in (1..Len(table)) \X (1..Len(table[1].data)) :
                    table[c].data[r] = NA})

\* the rows of which no column is missing
CompleteRowSet(table) ==
    {r \in 1..Len(table[1].data) : \A c \in 1..Len(table) : table[c].data[r] # NA}

\* C11: analyze_missing_data returns total_cells = rows * columns,
\* total_missing = the sum of the columns' missing counts,
\* columns_with_missing = the number of columns with a missing cell,
\* complete_rows = the number of rows with no missing cell, and
\* rows_with_missing + complete_rows = the row count; on the ten-row table
\* with 0, 5 and 10 missing cells in columns A, B, C it reports
\* columns_with_missing = 2 and complete_rows = 0.
C11_DatasetMissingCounts ==
    IsCall("analyze_missing_data") =>
        /\ Res.total_cells = Len(df[1].data) * Len(df)
        /\ Res.total_missing = TableMissing(df)
        /\ Res.columns_with_missing =
               Cardinality({c \in 1..Len(df) : NumMissing(df[c]) >= 1})
        /\ Res.complete_rows = Cardinality(CompleteRowSet(df))
        /\ Res.rows_with_missing + Res.complete_rows = Len(df[1].data)
        /\ df = TenRowsABC =>
               /\ Res.columns_with_missing = 2
               /\ Res.complete_rows = 0

\* the ten-row table with 0, 5 and 10 missing cells has been analysed
C11_Witness ==
    /\ IsCall("analyze_missing_data")
    /\ df = TenRowsABC
    /\ NumMissing(df[1]) = 0 /\ NumMissing(df[2]) = 5 /\ NumMissing(df[3]) = 10
    /\ Res.total_missing = 15

\* the missing percentage of a column, from its cells
MissingShare(series) ==
    IF Len(series.data) = 0 THEN Rat(0, 1)
    ELSE Rat(NumMissing(series), Len(series.data))

\* C12: column_details of analyze_missing_data has exactly one entry per
\* column, in descending order of missing_pct; columns with equal
\* missing_pct keep the order they have in the table.
C12_ColumnDetailsStableOrder ==
    IsCall("analyze_missing_data") =>
        LET d == Res.column_details
        IN  /\ Len(d) = Len(df)
            /\ \A c \in 1..Len(df) :
                   Cardinality({i \in 1..Len(d) : d[i].column = c}) = 1
            /\ \A i \in 1..Len(d) :
                   d[i].missing_pct = MissingShare(df[d[i].column])
            /\ \A i, j \in 1..Len(d) :
                   i < j =>
                       \/ RatLT(d[j].missing_pct, d[i].missing_pct)
                       \/ /\ d[j].missing_pct = d[i].missing_pct
                          /\ d[i].column < d[j].column

\* three columns analysed, two of them tied below a later column with more
\* missing cells, so that the sort both moved an entry and kept a tie
C12_Witness ==
    /\ IsCall("analyze_missing_data")
    /\ Len(df) = 3
    /\ NumMissing(df[1]) = NumMissing(df[3])
    /\ NumMissing(df[2]) > NumMissing(df[1])
    /\ Res.column_details[1].column = 2
    /\ Res.column_details[2].column = 1
    /\ Res.column_details[3].column = 3

DistributionFields ==
    {"skewness", "skew_interpretation", "kurtosis", "kurt_interpretation",
     "shapiro_stat", "shapiro_p_value", "is_normal", "iqr"}

\* every field of a distribution result is null
AllNull(r) ==
    /\ \A p \in PercentileKeys : r.percentiles[p] = None
    /\ \A f \in DistributionFields : r[f] = None

\* fewer than three present values, or not a numeric column
LacksDistribution(series) == NumPresent(series) < 3 \/ series.dtype # "numeric"

\* C13: calculate_distribution_stats returns the empty structure (every
\* percentile, skewness, kurtosis, both interpretations, shapiro_stat,
\* shapiro_p_value, is_normal and iqr null) exactly when the column has fewer
\* than 3 present values or is not numeric; with at least 3 present numeric
\* values every percentile, skewness, kurtosis and iqr are non-null.
C13_EmptyDistributionStats ==
    IsCall("calculate_distribution_stats") =>
        /\ result # None
        /\ AllNull(Res) <=> LacksDistribution(Series)
        /\ ~LacksDistribution(Series) =>
               /\ \A p \in PercentileKeys : Res.percentiles[p] # None
               /\ Res.skewness # None
               /\ Res.kurtosis # None
               /\ Res.iqr # None

\* a numeric column of at least three cells of which only two are present
\* has been given the empty structure
C13_Witness ==
    /\ IsCall("calculate_distribution_stats")
    /\ Series.dtype = "numeric"
    /\ Len(Series.data) >= 3
    /\ NumPresent(Series) = 2
    /\ AllNull(Res)

\* C14: for a numeric column with at least 3 present values
\* max >= p99 >= p95 >= p90 >= p75 >= p50 >= p25 >= p10 >= min, with min and
\* max those of calculate_basic_stats, and iqr = p75 - p25.
C14_PercentilesMonotonic ==
    (IsCall("calculate_distribution_stats") /\ ~LacksDistribution(Series)) =>
        LET b    == calculate_basic_stats(Series)
            P(p) == Res.percentiles[p][1]
        IN  /\ RatLE(P(99), Rat(b.max[1], 1))
            /\ RatLE(P(95), P(99))
            /\ RatLE(P(90), P(95))
            /\ RatLE(P(75), P(90))
            /\ RatLE(P(50), P(75))
            /\ RatLE(P(25), P(50))
            /\ RatLE(P(10), P(25))
            /\ RatLE(Rat(b.min[1], 1), P(10))
            /\ Res.iqr = Some(RatSub(P(75), P(25)))

\* the percentiles of a column with distinct quartiles have been computed
C14_Witness ==
    /\ IsCall("calculate_distribution_stats")
    /\ ~LacksDistribution(Series)
    /\ RatLT(Res.percentiles[25][1], Res.percentiles[75][1])
    /\ RatLT(Res.percentiles[10][1], Res.percentiles[99][1])

\* the call reached the normality test
Tested == IsCall("calculate_distribution_stats") /\ call.shapiro_result # None

\* C15: is_normal is true exactly when the p-value of the normality test is
\* > 0.05; when the test itself fails, shapiro_stat, shapiro_p_value and
\* is_normal are all null and the call still returns the percentiles,
\* skewness, kurtosis and iqr.
C15_NormalityFields ==
    Tested =>
        IF call.shapiro_result.raised
        THEN /\ Res.shapiro_stat = None
             /\ Res.shapiro_p_value = None
             /\ Res.is_normal = None
             /\ \A p \in PercentileKeys : Res.percentiles[p] # None
             /\ Res.skewness # None
             /\ Res.kurtosis # None
             /\ Res.iqr # None
        ELSE /\ Res.is_normal \in {Some(TRUE), Some(FALSE)}
             /\ Res.is_normal = Some(TRUE) <=>
                    RatLT(Rat(5, 100), call.shapiro_result.p)

\* the normality test has failed in a call
C15_Witness ==
    /\ Tested
    /\ call.shapiro_result.raised
    /\ Res.is_normal = None
    /\ Res.iqr # None

\* the percentage of the cells of the table that are present, and that are
\* missing, as exact rationals
PresentPct(table) ==
    LET cells == Len(table) * Len(table[1].data)
    IN  IF cells = 0 THEN Rat(100, 1)
        ELSE Rat(100 * (cells - TableMissing(table)), cells)

MissingPct(table) == RatSub(Rat(100, 1), PresentPct(table))

\* the completeness the summary reports, in percent
CompletenessPct(r) == RatMul(Rat(100, 1), r.completeness)

\* C16: get_quality_summary reports completeness = 100 - the
\* total_missing_pct of analyze_missing_data and labels it with >=:
\* Excelente from 95, Bueno from 80, Regular from 60, Critico below; a
\* completeness of exactly 95, 80 or 60 gets the higher label.
C16_QualityLabel ==
    IsCall("get_quality_summary") =>
        LET c == CompletenessPct(Res)
        IN  /\ c = PresentPct(df)
            /\ c = RatSub(Rat(100, 1),
                          RatMul(Rat(100, 1), analyze_missing_data(df).total_missing_pct))
            /\ Res.quality_label =
                   (IF RatLE(Rat(95, 1), c) THEN "Excelente"
                    ELSE IF RatLE(Rat(80, 1), c) THEN "Bueno"
                    ELSE IF RatLE(Rat(60, 1), c) THEN "Regular"
                    ELSE "Critico")
            /\ c = Rat(95, 1) => Res.quality_label = "Excelente"
            /\ c = Rat(80, 1) => Res.quality_label = "Bueno"
            /\ c = Rat(60, 1) => Res.quality_label = "Regular"

\* a table exactly 80 percent complete has been labelled
C16_Witness ==
    /\ IsCall("get_quality_summary")
    /\ 5 * TableMissing(df) = Len(df) * Len(df[1].data)
    /\ TableMissing(df) > 0
    /\ Res.quality_label = "Bueno"

\* the numeric columns of the table
NumericColumnSet(table) == {c \in 1..Len(table) : table[c].dtype = "numeric"}

\* the outliers the IQR method with the default k finds in column c
IqrCount(table, c) == detect_outliers_iqr(table[c], DefaultK2).outlier_count

\* the sum of IqrCount over the columns S
RECURSIVE IqrCountSum(_, _)
IqrCountSum(S, table) ==
    IF S = {} THEN 0
    ELSE LET c == CHOOSE x \in S : TRUE
         IN  IqrCount(table, c) + IqrCountSum(S \ {c}, table)

\* all cells missing, or all present values equal
Degenerate(series) ==
    \A i, j \in PresentPositions(series) : series.data[i] = series.data[j]

\* C17: get_quality_summary runs the IQR method with the default k on every
\* numeric column: total_outliers is the sum of their outlier_count and
\* outlier_columns the number of them with outlier_count >= 1; a degenerate
\* numeric column (all missing, or without variance) contributes 0 and does
\* not keep the others from being counted.
C17_OutlierTotals ==
    IsCall("get_quality_summary") =>
        /\ result # None
        /\ Res.total_outliers = IqrCountSum(NumericColumnSet(df), df)
        /\ Res.outlier_columns =
               Cardinality({c \in NumericColumnSet(df) : IqrCount(df, c) >= 1})
        /\ \A c \in NumericColumnSet(df) : Degenerate(df[c]) => IqrCount(df, c) = 0
        /\ Res.total_outliers =
               IqrCountSum({c \in NumericColumnSet(df) : ~Degenerate(df[c])}, df)

\* a table with a fully missing and a constant numeric column between two
\* numeric columns with outliers has been summarised
C17_Witness ==
    /\ IsCall("get_quality_summary")
    /\ \E a, b, c, d \in NumericColumnSet(df) :
          /\ a < b /\ b < d /\ a < c /\ c < d
          /\ IqrCount(df, a) >= 1
          /\ NumPresent(df[b]) = 0
          /\ NumPresent(df[c]) >= 2 /\ Degenerate(df[c])
          /\ IqrCount(df, d) >= 1
    /\ Res.outlier_columns = 2
    /\ Res.total_outliers = 3

IsMissingIssue(e) == e.text = "Datos faltantes"

IsOutlierIssue(e) == e.text = "Columnas con outliers"

\* C18: the issues of get_quality_summary hold a missing-data entry exactly
\* when total_missing_pct > 5 (completeness < 95) and a columns-with-
\* outliers entry exactly when outlier_columns > 0, the missing-data entry
\* first and nothing else; has_issues is true exactly when the list is not
\* empty.
C18_Issues ==
    IsCall("get_quality_summary") =>
        LET issues  == Res.issues
            missing == {i \in 1..Len(issues) : IsMissingIssue(issues[i])}
            outlier == {i \in 1..Len(issues) : IsOutlierIssue(issues[i])}
        IN  /\ missing \cup outlier = 1..Len(issues)
            /\ Cardinality(missing) <= 1
            /\ Cardinality(outlier) <= 1
            /\ missing # {} <=> RatLT(Rat(5, 1), MissingPct(df))
            /\ missing # {} <=> RatLT(CompletenessPct(Res), Rat(95, 1))
            /\ outlier # {} <=> Res.outlier_columns > 0
            /\ \A i \in missing, j \in outlier : i < j
            /\ Res.has_issues <=> issues # <<>>

\* a summary with both entries, the missing-data entry first
C18_Witness ==
    /\ IsCall("get_quality_summary")
    /\ Len(Res.issues) = 2
    /\ IsMissingIssue(Res.issues[1])
    /\ IsOutlierIssue(Res.issues[2])
    /\ Res.has_issues

NormalityFields == {"shapiro_stat", "shapiro_p_value", "is_normal"}

\* two distribution results that differ in the normality fields at most
SameButNormality(a, b) ==
    /\ a.percentiles = b.percentiles
    /\ \A f \in DistributionFields \ NormalityFields : a[f] = b[f]

\* the number of cells of the column equal to v
Occurrences(series, v) ==
    Cardinality({i \in 1..Len(series.data) : series.data[i] = v})

RECURSIVE BagSize(_, _)
BagSize(bag, V) ==
    IF V = {} THEN 0
    ELSE LET v == CHOOSE x \in V : TRUE
         IN  bag[v] + BagSize(bag, V \ {v})

\* the call has been made twice in a row with the same arguments
CalledTwice == call # NoCall /\ call.before # None

\* C19: every analysis function leaves its input unchanged and returns the
\* same result when called again on the same table or column, except that
\* the normality fields of calculate_distribution_stats may differ for a
\* column with more than 5000 present values: the test is handed all
\* present values when there are at most 5000 and 5000 of them, drawn
\* without replacement, otherwise.  Whatever was called before, a result is
\* determined by the table and the arguments of the call.
C19_RepeatedCalls ==
    /\ [](CalledTwice =>
             IF IsCall("calculate_distribution_stats") /\ NumPresent(Series) > 5000
             THEN SameButNormality(call.before[1], Res)
             ELSE call.before = result)
    /\ []((IsCall("calculate_distribution_stats") /\ call.sample # None) =>
             /\ \A v \in DOMAIN call.sample :
                    call.sample[v] <= Occurrences(Series, v)
             /\ BagSize(call.sample, DOMAIN call.sample) =
                    IF NumPresent(Series) <= 5000 THEN NumPresent(Series) ELSE 5000)
    /\ [][df' = df]_vars
    /\ [][call' # NoCall => result' = Some(Apply(call', df))]_vars

\* a column of more than 5000 present values has been analysed twice and
\* the second call, on another sample, found another p-value
C19_Witness ==
    /\ CalledTwice
    /\ IsCall("calculate_distribution_stats")
    /\ NumPresent(Series) > 5000
    /\ call.before[1].shapiro_p_value # Res.shapiro_p_value
    /\ call.before[1].iqr = Res.iqr

\* the load run has read its whole file into its local df and found it
\* non-empty
Validated(id) ==
    LET t == threads[id]
    IN  /\ t.pc \notin {"unstarted", "start", "validate", "read", "check_empty"}
        /\ Disk(t.file_path).parses
        /\ t.rows = NumRows(Disk(t.file_path).table)
        /\ t.df = Some([load |-> id, table |-> Disk(t.file_path).table])
        /\ ~Empty(t.df[1].table)

\* the DataFrame is the local df of a validated load run, and so not a
\* frame a reader is still building
CompleteTable(frame) ==
    /\ frame.load \in Loads
    /\ Validated(frame.load)
    /\ threads[frame.load].df = Some(frame)

\* the main thread is past the success branch of _handle_load_result: in
\* the success dialog, in _on_data_loaded or in the panel updates it triggers
PostLoad == ui.cause = "loaded"

\* C20: DataManager shows a dataframe only when a load run has read its
\* whole file and found it non-empty; the main thread is in the post-load
\* updates of a load run only after that run made its one completion
\* callback with success, and then the manager holds that run's table;
\* every statistic, post-load or asked for by the user while another run
\* is reading, is computed on the complete table of a validated run and
\* never on a frame under construction.
C20_LoadThenAnalyze ==
    /\ is_loaded => CompleteTable(dm._dataframe[1])
    /\ PostLoad =>
          /\ ui.load \in Loads
          /\ threads[ui.load].callbacks = <<TRUE>>
          /\ Validated(ui.load)
          /\ dm._dataframe = threads[ui.load].df
    /\ ui.frame # None => CompleteTable(ui.frame[1])
    /\ call # NoCall =>
          /\ CompleteTable([load |-> call.load, table |-> df])
          /\ PostLoad => call.load = ui.load

\* the post-load statistics of a second load run have been computed on
\* its table, which replaced the table of the first
C20_Witness ==
    /\ PostLoad
    /\ ui.load = 2
    /\ call.op = "update_statistics"
    /\ Validated(1)
    /\ threads[1].df[1].table # threads[2].df[1].table
    /\ call.load = 2

\* a statistic asked for by the user has been computed on the table of the
\* first load while the second run is reading its file
StatisticWhileReading ==
    /\ call.op = "update_statistics"
    /\ ui.cause = "user"
    /\ threads[2].pc = "read"
    /\ threads[2].rows = 1
    /\ call.load = 1

\* the present values of the column
PresentValues(series) == {series.data[i] : i \in PresentPositions(series)}

\* how often the value is present in the column
TimesPresent(series, v) ==
    Cardinality({i \in PresentPositions(series) : series.data[i] = v})

\* the values no other value is present more often than
MostFrequent(series) ==
    {v \in PresentValues(series) :
        \A w \in PresentValues(series) : TimesPresent(series, w) <= TimesPresent(series, v)}

BasicStatsOnPresent ==
    IsCall("calculate_basic_stats") /\ NumPresent(Series) >= 1

PresentSum(series) ==
    SumSeq([i \in 1..Len(series.data) |->
               IF series.data[i] = NA THEN 0 ELSE series.data[i]])

\* the mean of the present values
PresentMean(series) == Rat(PresentSum(series), NumPresent(series))

\* the sample variance of the present values: the squared deviations from
\* the mean, summed and divided by n - 1; as (n*x - S)^2 summed over n^2 (n - 1)
SampleVariance(series) ==
    LET n == NumPresent(series)
        S == PresentSum(series)
    IN  Rat(SumSeq([i \in 1..Len(series.data) |->
                       IF series.data[i] = NA THEN 0
                       ELSE (n * series.data[i] - S) * (n * series.data[i] - S)]),
            n * n * (n - 1))

\* a numeric column whose present values have a standard deviation other
\* than 0: two present values at least, not all equal
NonZeroStd(series) ==
    /\ series.dtype = "numeric"
    /\ NumPresent(series) >= 2
    /\ Cardinality(PresentValues(series)) >= 2

\* C22: on a numeric column whose present values have a non-zero standard
\* deviation detect_outliers_zscore returns lower_bound = mean -
\* threshold * std and upper_bound = mean + threshold * std, with the mean
\* and the sample standard deviation of the present values, the same mean
\* and std that calculate_basic_stats reports for the column.
C22_ZscoreBounds ==
    (IsCall("detect_outliers_zscore") /\ NonZeroStd(Series)) =>
        LET basic == calculate_basic_stats(Series)
        IN  /\ Res.method = Some("Z-Score")
            /\ Res.mean = PresentMean(Series)
            /\ Res.std = [sqrt_of |-> SampleVariance(Series)]
            /\ Res.threshold = Rat(call.threshold2, 2)
            /\ Res.lower_bound =
                   Some(MeanPlusStd(Res.mean, RatSub(Rat(0, 1), Res.threshold), Res.std))
            /\ Res.upper_bound = Some(MeanPlusStd(Res.mean, Res.threshold, Res.std))
            /\ basic.mean = Some(Res.mean)
            /\ basic.std = Some(Res.std)

\* the default threshold on a column with a missing cell, where the sample
\* and the population deviation differ
C22_Witness ==
    /\ IsCall("detect_outliers_zscore")
    /\ NonZeroStd(Series)
    /\ NumMissing(Series) > 0
    /\ call.threshold2 = DefaultThreshold2
    /\ Res.std # Std_Population(Values(DropNa(Series)))
    /\ Res.lower_bound # Res.upper_bound

SummaryCall == IsCall("get_outlier_summary")

\* the bracket of the list returned: 0 for the no-outliers message, 1 for
\* the moderate list, 2 for the high list
ListBracket(recommendations) ==
    CASE recommendations = NoOutliersList -> 0
      [] recommendations = ModerateOutliersList -> 1
      [] recommendations = HighOutliersList -> 2
      [] OTHER -> 3

\* C23 as stated: get_outlier_summary runs both detection methods and picks
\* its recommendation list by the IQR outlier percentage alone: the
\* no-outliers message at 0, the moderate list above 0 and below 5, the high
\* list from 5 on.
C23_IqrPctAlone ==
    SummaryCall =>
        /\ Res.iqr = detect_outliers_iqr(Series, DefaultK2)
        /\ Res.zscore = detect_outliers_zscore(Series, DefaultThreshold2)
        /\ ListBracket(Res.recommendations) =
               IF Res.iqr.outlier_pct.num = 0 THEN 0
               ELSE IF RatLT(Res.iqr.outlier_pct, Rat(5, 100)) THEN 1
               ELSE 2

\* C23 amended: get_outlier_summary runs both detection methods with their
\* defaults; it returns the no-outliers message only when the IQR and the
\* Z-score outlier percentages are both 0, the moderate list when the IQR
\* percentage is below 5 and one of the two percentages is above 0, and the
\* high list when the IQR percentage is 5 or more.
C23_OutlierRecommendations ==
    SummaryCall =>
        /\ Res.iqr = detect_outliers_iqr(Series, DefaultK2)
        /\ Res.zscore = detect_outliers_zscore(Series, DefaultThreshold2)
        /\ ListBracket(Res.recommendations) =
               IF Res.iqr.outlier_pct.num = 0 /\ Res.zscore.outlier_pct.num = 0 THEN 0
               ELSE IF RatLT(Res.iqr.outlier_pct, Rat(5, 100)) THEN 1
               ELSE 2

\* no value beyond the IQR fences, one more than three deviations from the
\* mean: the moderate list
C23_Witness ==
    /\ SummaryCall
    /\ Res.iqr.method = Some("IQR")
    /\ Res.iqr.outlier_count = 0
    /\ Res.zscore.outlier_count = 1
    /\ Res.recommendations = ModerateOutliersList

\* the bracket of the column's missing percentage: 0 for = 0, 1 for (0, 5),
\* 2 for [5, 20), 3 for [20, 50), 4 for [50, 100]; from the cells, as
\* 100 * missing compared with 5, 20 and 50 times the length
MissingBracket(series) ==
    LET missing == NumMissing(series)
        total   == Len(series.data)
    IN  IF missing = 0 THEN 0
        ELSE IF 100 * missing < 5 * total THEN 1
        ELSE IF 100 * missing < 20 * total THEN 2
        ELSE IF 100 * missing < 50 * total THEN 3
        ELSE 4

\* the first entry of the list of each bracket
BracketHeading(bracket) ==
    CASE bracket = 0 -> "No se requiere accion"
      [] bracket = 1 -> "Eliminar filas con valores faltantes"
      [] bracket = 2 -> "Imputacion multiple recomendada"
      [] bracket = 3 -> "Alto porcentaje de faltantes"
      [] bracket = 4 -> "Mayoria de valores faltantes"

ColumnMissingCall == IsCall("analyze_column_missing")

\* one column of 100 cells in each bracket: 0, 4, 5, 20 and 50 cells missing
BracketColumn(bracket) ==
    RunColumn(41, CASE bracket = 0 -> 0 [] bracket = 1 -> 4 [] bracket = 2 -> 5
                    [] bracket = 3 -> 20 [] bracket = 4 -> 50)

\* the list depends on the bracket only: it is the list returned for the
\* column of 100 cells in the same bracket
ListByBracketOnly ==
    /\ MissingBracket(BracketColumn(MissingBracket(Series))) = MissingBracket(Series)
    /\ Res.recommendations[1] = BracketHeading(MissingBracket(Series))
    /\ Res.recommendations =
           analyze_column_missing(BracketColumn(MissingBracket(Series))).recommendations

\* C24 as stated: analyze_column_missing picks its recommendations by the
\* bracket of the missing percentage alone, brackets = 0, (0, 5), [5, 20),
\* [20, 50) and [50, 100], and every bracket has one fixed ordered list of
\* 2 to 3 entries.
C24_TwoToThreeEntries ==
    ColumnMissingCall =>
        /\ ListByBracketOnly
        /\ Len(Res.recommendations) \in 2..3

\* C24 amended: analyze_column_missing picks its recommendations by the
\* bracket of the missing percentage alone, brackets = 0, (0, 5), [5, 20),
\* [20, 50) and [50, 100]; the bracket = 0 has the single entry that no
\* action is required and every other bracket one fixed ordered list of 3
\* entries.
C24_RecommendationBrackets ==
    ColumnMissingCall =>
        /\ ListByBracketOnly
        /\ Len(Res.recommendations) = IF MissingBracket(Series) = 0 THEN 1 ELSE 3

\* exactly 5 per cent missing: the list of [5, 20)
C24_Witness ==
    /\ ColumnMissingCall
    /\ 100 * NumMissing(Series) = 5 * Len(Series.data)
    /\ NumMissing(Series) > 0
    /\ Res.recommendations[1] = "Imputacion multiple recomendada"
    /\ Len(Res.recommendations) = 3

\* mean + coef * std is a number: the deviation is defined
DefinedBound(bound) == ~IsNaN(bound.mean) /\ ~IsNaN(bound.std.sqrt_of)

\* C25: a result of detect_outliers_iqr or detect_outliers_zscore whose
\* method is not null has defined bounds with lower_bound <= upper_bound,
\* and for the Z-score method a defined std > 0; a numeric column with one
\* present value, whose sample deviation is undefined, gets the empty
\* result from detect_outliers_zscore.
C25_DefinedBounds ==
    /\ IqrRan =>
          /\ Res.lower_bound # None /\ Res.upper_bound # None
          /\ ~IsNaN(Res.lower_bound[1]) /\ ~IsNaN(Res.upper_bound[1])
          /\ RatLE(Res.lower_bound[1], Res.upper_bound[1])
    /\ ZscoreRan =>
          /\ Res.lower_bound # None /\ Res.upper_bound # None
          /\ DefinedBound(Res.lower_bound[1]) /\ DefinedBound(Res.upper_bound[1])
          /\ RatLE(Res.lower_bound[1].coef, Res.upper_bound[1].coef)
          /\ ~IsNaN(Res.std.sqrt_of) /\ Res.std.sqrt_of.num > 0
    /\ (IsCall("detect_outliers_zscore") /\ Series.dtype = "numeric"
            /\ NumPresent(Series) = 1) => IsEmptyOutlierResult(Res)

\* C26: in every result of calculate_distribution_stats shapiro_stat,
\* shapiro_p_value and is_normal are all null or all non-null; when the
\* normality test returned a statistic and a p-value (a p-value of exactly 0
\* included) both numbers are reported and is_normal is p-value > 0.05.
C26_NormalityAllOrNone ==
    IsCall("calculate_distribution_stats") =>
        /\ \/ \A f \in NormalityFields : Res[f] = None
           \/ \A f \in NormalityFields : Res[f] # None
        /\ (Tested /\ ~call.shapiro_result.raised) =>
              /\ Res.shapiro_stat = Some(call.shapiro_result.stat)
              /\ Res.shapiro_p_value = Some(call.shapiro_result.p)
              /\ Res.is_normal = Some(RatLT(Rat(5, 100), call.shapiro_result.p))

\* the load run made a completion callback with success = false
ReportedFailure(id) ==
    \E i \in DOMAIN threads[id].callbacks : ~threads[id].callbacks[i]

\* nothing was called on the manager after the load run was started
LastOperation(id) ==
    /\ ~At(id, "unstarted")
    /\ \A j \in Loads : j > id => At(j, "unstarted")
    /\ call = NoCall

\* C27: whenever load_file reports failure through the completion callback
\* (success = false), the manager's dataframe and file_path are what they
\* were before the call; load_file_sync returning (False, message) leaves
\* them unchanged in the same way.
C27_FailureLeavesDataset ==
    /\ \A id \in Loads :
          (ReportedFailure(id) /\ LastOperation(id)) =>
              /\ dm._dataframe = threads[id].before._dataframe
              /\ dm._file_path = threads[id].before._file_path
    /\ (call # NoCall /\ call.op = "load_file_sync" /\ ~result[1][1]) =>
              /\ dm._dataframe = call.dm._dataframe
              /\ dm._file_path = call.dm._file_path

\* load_file_sync has failed on a manager that held a dataset
SyncFailureAfterLoad ==
    /\ call # NoCall
    /\ call.op = "load_file_sync"
    /\ ~result[1][1]
    /\ call.dm._dataframe # None
    /\ dm._dataframe = call.dm._dataframe

\* the load runs that have started and not ended
InFlight == {id \in Loads : ~At(id, "unstarted") /\ ~At(id, "done")}

\* every started run ends
RunsTerminate == \A id \in Loads : At(id, "start") ~> At(id, "done")

\* a run ends with _is_loading False
EndsNotLoading ==
    [][\A id \in Loads :
          (~At(id, "done") /\ threads'[id].pc = "done") => ~dm'._is_loading]_vars

\* a run that has ended made one completion callback, with success only
\* if it had stored its dataframe
OneCallback ==
    \A id \in Loads :
       At(id, "done") =>
           /\ Len(threads[id].callbacks) = 1
           /\ threads[id].callbacks[1] => Validated(id)

\* at most one run started from the panel is in flight
OneInFlight == Cardinality(InFlight) <= 1

\* the load button, disabled by _start_loading, is enabled again
ButtonReEnabled == ui._loading ~> ~ui._loading

\* C28: every started load_file run eventually terminates with is_loading
\* back to False and has invoked the completion callback exactly once, with
\* success = true only if the new dataframe was stored; at most one load run
\* started from the panel is in flight at any time, and the panel's load
\* button is re-enabled after every run.
C28_LoadRuns ==
    /\ RunsTerminate
    /\ EndsNotLoading
    /\ []OneCallback
    /\ []OneInFlight
    /\ ButtonReEnabled

\* the second run is loading while DataManager.is_loading is False, the
\* first run having reset it on its way out
NotLoadingWhileLoading ==
    /\ At(1, "done")
    /\ At(2, "read")
    /\ ~dm._is_loading

\* a run has invoked the completion callback twice: with success, which
\* raised, and then from the except clause
CallbackInvokedTwice == \E id \in Loads : threads[id].callbacks = <<TRUE, FALSE>>

\* get_column_data has returned a column to the panel that called it
ColumnReturned == ui.pc = "calculate"

\* C29: get_column_data(name), called on the main thread while a load run
\* may replace the dataframe, never raises, and when it returns a column
\* its loaded-check, its membership check and its column read all referred
\* to the same dataframe, of which the column is the column called name.
C29_GetColumnData ==
    /\ ui.pc # "KeyError"
    /\ ColumnReturned =>
          /\ Len(ui.seen) = 3
          /\ \A i \in DOMAIN ui.seen : ui.seen[i] = ui.frame[1].load
          /\ ui.column_name \in DOMAIN ui.frame[1].table

\* get_column_data has returned a column of the second dataframe after it
\* had tested the columns of the first
MixedDataframes ==
    /\ ColumnReturned
    /\ ui.seen = <<1, 1, 2>>

\* the dataframe and the file path are both unset, or the dataframe was
\* built by a load run from the file of that path
SameLoad(frame, path) ==
    IF frame = None
    THEN path = None
    ELSE /\ path # None
         /\ frame[1].load \in Loads
         /\ path[1] = threads[frame[1].load].file_path

\* C30: at every moment DataManager's dataframe and file_path belong to the
\* same load, both unset or both set by the same successful load; no
\* reader, such as get_dataset_summary computing file_name and the row
\* count, sees the dataframe of one file with the file path of another.
C30_SameLoad ==
    /\ SameLoad(dm._dataframe, dm._file_path)
    /\ IsCall("get_dataset_summary") =>
          /\ call.load \in Loads
          /\ Res.file_name = Some(threads[call.load].file_path)
          /\ Res.n_rows = NumRows(Disk(threads[call.load].file_path).table)

\* a summary asked for by the user names the first file and counts the rows
\* of the second
SummaryOfTwoFiles ==
    /\ IsCall("get_dataset_summary")
    /\ call.load = 2
    /\ Res.file_name = Some("a.csv")
    /\ threads[2].file_path = "b.csv"
    /\ Res.n_rows = NumRows(TableB)

====
